---- MODULE Spec2Model ----
(***************************************************************************)
(* A model of AIGenerator.generate_response (backend/ai_generator.py): the *)
(* bounded multi-round tool-calling loop, the transport-level retry of a   *)
(* model request (_api_call_with_retry) and the execution of one round's   *)
(* tool invocations (_execute_tools_for_round).                            *)
(*                                                                         *)
(* The LLM service and the tool manager are collaborators: every response  *)
(* (stop reason and block layout), every failure of a request attempt and  *)
(* every tool outcome is chosen nondeterministically.                      *)
(***************************************************************************)
EXTENDS Naturals, Sequences, FiniteSets, TLC

(* ------------------------------ bounds --------------------------------- *)

\* max_rounds is drawn from 0..MaxRounds
MaxRounds == 2

\* a response's content holds 0..MaxBlocks blocks
MaxBlocks == 2

\* an error message under classification holds 1..MaxWords words
MaxWords == 2

(* ------------------------- program constants --------------------------- *)

\* _api_call_with_retry(self, api_params, max_retries: int = 2)
max_retries == 2

\* the user's question, messages[0]["content"]
query == "query"

(* ------------------------- error messages ------------------------------ *)

\* An error message, str(e), is a sequence of words; a signature such as
\* 'rate limit' is one word. One message is capitalised as the API writes it
\* ("API Error: Rate limit exceeded"), so that lowering is not the identity.
ErrMsgs ==
    { <<"API Error:", "Rate Limit", "exceeded">>,
      <<"network", "unreachable">>,
      <<"connection", "reset">>,
      <<"invalid", "request">> }

\* the messages a failing tool raises with: the two signatures the tool layer
\* looks for, and one it does not
ToolErrMsgs ==
    { <<"API Error:", "Rate Limit", "exceeded">>,
      <<"network", "unreachable">>,
      <<"connection", "reset">> }

\* str.lower() on one word
LowerWord(w) ==
    CASE w = "Rate Limit" -> "rate limit"
      [] w = "API Error:" -> "api error:"
      [] OTHER -> w

\* str.lower()
Lower(m) == [i \in DOMAIN m |-> LowerWord(m[i])]

\* sig in m
Contains(m, sig) == \E i \in DOMAIN m : m[i] = sig

\* IsTransientApiError with a fault: every error is retried (sensitivity of C10)
IsTransientApiError_Always(m) == TRUE

\* IsTransientApiError with a fault: 'network' is not looked for
\* (sensitivity of C32)
IsTransientApiError_NoNetwork(m) ==
    Contains(Lower(m), "rate limit") \/ Contains(Lower(m), "connection")

\* ai_generator.py:147-148, the retry layer's classification
IsTransientApiError(m) ==
    LET error_msg == Lower(m)
    IN  \/ Contains(error_msg, "rate limit")
        \/ Contains(error_msg, "network")
        \/ Contains(error_msg, "connection")

\* IsTransientToolError with a fault: 'rate limit' is not looked for
\* (sensitivity of C29)
IsTransientToolError_NetworkOnly(m) == Contains(Lower(m), "network")

\* IsTransientToolError with a fault: the message is not lowered (sensitivity of C3)
IsTransientToolError_NoLower(m) ==
    Contains(m, "rate limit") \/ Contains(m, "network")

\* ai_generator.py:184-185, the tool layer's classification
IsTransientToolError(m) ==
    LET error_msg == m
    IN  Contains(Lower(error_msg), "rate limit") \/ Contains(Lower(error_msg), "network")

\* BackoffDelay with a fault: a constant delay of one second (sensitivity of C9)
BackoffDelay_Constant(a) == 1

\* time.sleep(2 ** attempt)
BackoffDelay(a) == 2 ^ a

\* IsLastAttempt with a fault: no attempt is the last one (sensitivity of C28)
IsLastAttempt_Never(a) == FALSE

\* if attempt == max_retries: raise e
IsLastAttempt(a) == a = max_retries

(* --------------------------- responses --------------------------------- *)

StopReasons == {"tool_use", "end_turn", "max_tokens"}

\* block i of the response to request k; its text and id name it
TextBlock(k, i) == [type |-> "text", text |-> <<k, i>>, id |-> <<>>, name |-> ""]

ToolUseBlock(k, i) ==
    [type |-> "tool_use", text |-> <<>>, id |-> <<k, i>>, name |-> "search_course_content"]

\* the layouts the service produces: at most MaxBlocks blocks, an optional
\* leading text block followed by the tool_use blocks
Contents(k) ==
    { [i \in 1..n |-> IF i = 1 /\ lead THEN TextBlock(k, i) ELSE ToolUseBlock(k, i)] :
        lead \in BOOLEAN, n \in 0..MaxBlocks }

HasToolUse(c) == \E i \in DOMAIN c : c[i].type = "tool_use"

\* what the service can answer to request k: a response that stops for tool
\* use holds a tool_use block, one that ends its turn holds none, and one cut
\* off by max_tokens holds whatever was produced until then
Responses(k) ==
    { r \in [stop_reason : StopReasons, content : Contents(k)] :
        /\ r.stop_reason = "tool_use" => HasToolUse(r.content)
        /\ r.stop_reason = "end_turn" => ~ HasToolUse(r.content) }

\* the value of `response` before the first request
NoResponse == [stop_reason |-> "none", content |-> <<>>]

\* _handle_tool_execution has not been called
NoLegacy ==
    [pc |-> "idle", messages |-> <<>>, executed |-> <<>>, requests |-> <<>>,
     answer |-> <<>>, outcome |-> "running", ret |-> <<>>, exc |-> <<>>]

(* ----------------------------- state ----------------------------------- *)

VARIABLES
    max_rounds,     \* argument max_rounds
    tools,          \* TRUE iff a non-empty tools list was passed
    tool_manager,   \* TRUE iff a tool manager was passed
    conversation_history,   \* argument conversation_history: None or a string
    messages,       \* the growing message list
    round_num,      \* loop variable of generate_response
    response,       \* the last response received
    tool_results,   \* local list of _execute_tools_for_round
    block_idx,      \* position of _execute_tools_for_round in response.content
    pc,             \* "loop", "api", "exec", "after", "done"
    caller,         \* which statement called _api_call_with_retry: "loop" or "final"
    attempt,        \* loop variable of _api_call_with_retry (0 outside a request)
    slept,          \* history: the delays time.sleep was called with by the request under way
    e,              \* the error caught by the last failed attempt of the request under way
    requests,       \* history: api_params of every model request issued
    responses,      \* history: every response received
    executed,       \* history: every tool_manager.execute_tool call
    batches,        \* history: number of _execute_tools_for_round calls
    outcome,        \* "running", "returned" or "raised"
    ret,            \* the returned text
    exc,            \* the raised error message
    legacy          \* the state of a call of _handle_tool_execution

vars == << max_rounds, tools, tool_manager, conversation_history, messages, round_num, response,
           tool_results, block_idx, pc, caller, attempt, slept, e,
           requests, responses, executed, batches, outcome, ret, exc, legacy >>

args == << max_rounds, tools, tool_manager, conversation_history >>

(* ------------------ state of the registry and its tools ------------------ *)

\* search_tools.py: the ToolManager objects, the tool objects they can be given,
\* and the queries a coordinator runs through them
VARIABLES
    tm_tools,         \* per manager: self.tools, the dict as its (name, tool) items in insertion order
    session_sources,  \* per manager: self.session_sources
    last_sources,     \* per tool object: self.last_sources
    call,             \* history: the last call made on a manager or a tool, and its outcome
    calls,            \* history: number of tool executions since the sources were last reset
    registrations,    \* history: the (name, tool) of every register_tool call that succeeded
    shared,           \* TRUE iff all queries go through one manager
    serial,           \* TRUE iff the queries run one after another
    qpc,              \* per query: "exec", "read", "reset" or "done"
    qcalls,           \* history, per query: number of execute_tool calls it made
    qproduced,        \* history, per query: the citations its tool executions produced
    qread,            \* per query: the citation list read for it
    cited             \* history: TRUE once a query that produced citations is over

registry_vars == << tm_tools, session_sources, last_sources, call, calls, registrations,
                    shared, serial, qpc, qcalls, qproduced, qread, cited >>

\* the absent value None, and a present value v
None == <<>>
Some(v) == << v >>

\* truth value of an optional string: None and "" are false
TruthyStr(o) == o # None /\ o[1] # ""

\* two ToolManager objects; their tool objects: two CourseSearchTool and two
\* CourseOutlineTool objects, which carry last_sources
Managers == {"tm_a", "tm_b"}
SearchTools == {"search_tool", "search_tool_2"}
OutlineTools == {"outline_tool", "outline_tool_2"}
SourceTools == SearchTools \cup OutlineTools
Queries == {"q1", "q2"}

\* no call made yet
NoCall ==
    [op |-> "none", manager |-> "none", tool_name |-> "", tool |-> "none",
     course_name |-> None, lesson_number |-> None, results |-> None,
     produced |-> <<>>, text |-> "", list |-> <<>>, raised |-> "",
     catalog_queried |-> FALSE]

(* --------------------------- helpers ----------------------------------- *)

\* InRange with a fault: one round too many (sensitivity of C1)
InRange_OffByOne(r, n) == r <= n

\* InRange with a fault: the loop body runs once even for an empty range
\* (sensitivity of C34)
InRange_AtLeastOnce(r, n) == r < n \/ r = 0

\* for round_num in range(max_rounds)
InRange(r, n) == r < n

\* SYSTEM_PROMPT, ai_generator.py:9-38 (its first words)
SYSTEM_PROMPT == " You are an AI assistant specialized in course materials"

\* SystemContent with a fault: only a missing history is tested for, so an
\* empty one gets a block of its own (sensitivity of C35)
SystemContent_IsNotNone(history) ==
    IF history # None
    THEN SYSTEM_PROMPT \o "\n\nPrevious conversation:\n" \o history[1]
    ELSE SYSTEM_PROMPT

\* system_content, ai_generator.py:71-75
SystemContent(history) ==
    IF TruthyStr(history)
    THEN SYSTEM_PROMPT \o "\n\nPrevious conversation:\n" \o history[1]
    ELSE SYSTEM_PROMPT

\* LoopParams with a fault: an in-loop request carries the user query alone
\* (sensitivity of C31)
LoopParams_QueryOnly(msgs, tls) ==
    [site |-> "loop", messages |-> << msgs[1] >>,
     system |-> SystemContent(conversation_history),
     tools |-> tls, tool_choice |-> IF tls THEN "auto" ELSE "absent"]

\* api_params of an in-loop request, ai_generator.py:83-92
LoopParams(msgs, tls) ==
    [site |-> "loop", messages |-> msgs,
     system |-> SystemContent(conversation_history),
     tools |-> tls, tool_choice |-> IF tls THEN "auto" ELSE "absent"]

\* FinalParams with a fault: the synthesis request carries tools (sensitivity of C8)
FinalParams_WithTools(msgs) ==
    [site |-> "final", messages |-> msgs,
     system |-> SystemContent(conversation_history),
     tools |-> TRUE, tool_choice |-> "auto"]

\* final_params, ai_generator.py:117-122
FinalParams(msgs) ==
    [site |-> "final", messages |-> msgs,
     system |-> SystemContent(conversation_history),
     tools |-> FALSE, tool_choice |-> "absent"]

\* WantsTools with a fault: the tool manager is not looked at (sensitivity of C4)
WantsTools_IgnoresManager(r, tm) == r.stop_reason = "tool_use"

\* if response.stop_reason == "tool_use" and tool_manager
WantsTools(r, tm) == r.stop_reason = "tool_use" /\ tm

\* NeedsSynthesis with a fault: the wrong role is tested for (sensitivity of C2)
NeedsSynthesis_Assistant(msgs) == msgs[Len(msgs)].role = "assistant"

\* if messages[-1]["role"] == "user"
NeedsSynthesis(msgs) == msgs[Len(msgs)].role = "user"

\* AssistantTurn with a fault: the response is appended as a user turn
\* (sensitivity of C6)
AssistantTurn_AsUser(r) == [role |-> "user", content |-> r.content]

\* {"role": "assistant", "content": response.content}
AssistantTurn(r) == [role |-> "assistant", content |-> r.content]

\* {"role": "user", "content": tool_results}
ToolResultTurn(results) == [role |-> "user", content |-> results]

\* a tool_result entry, ai_generator.py:176-180
ToolResultEntry(block, content) ==
    [type |-> "tool_result", tool_use_id |-> block.id, content |-> content]

\* FailureContent with a fault: the bare message is passed on (sensitivity of C5)
FailureContent_Bare(m) == m

\* f"Tool execution failed: {error_msg}"
FailureContent(m) == <<"Tool execution failed: ">> \o m

\* RecordFailure with a fault: the failed invocation leaves no entry
\* (sensitivity of C7)
RecordFailure_Dropped(results, block, m) == results

\* ai_generator.py:188-194: a non-transient tool error becomes an entry
RecordFailure(results, block, m) ==
    Append(results, ToolResultEntry(block, FailureContent(m)))

\* what tool_manager.execute_tool returns
ToolReturns == { <<"Tool result">> }

\* return tool_results if tool_results else None
BatchResult(results) == IF results # <<>> THEN results ELSE <<>>

(* ----------------------------- Init ------------------------------------ *)

Init ==
    /\ max_rounds \in 0..MaxRounds
    /\ tools \in BOOLEAN
    /\ tool_manager \in BOOLEAN
    /\ conversation_history = None
    /\ legacy = NoLegacy
    /\ messages = << [role |-> "user", content |-> query] >>
    /\ round_num = 0
    /\ response = NoResponse
    /\ tool_results = <<>>
    /\ block_idx = 0
    /\ pc = "loop"
    /\ caller = "none"
    /\ attempt = 0
    /\ slept = <<>>
    /\ e = <<>>
    /\ requests = <<>>
    /\ responses = <<>>
    /\ executed = <<>>
    /\ batches = 0
    /\ outcome = "running"
    /\ ret = <<>>
    /\ exc = <<>>
    /\ tm_tools = [m \in Managers |-> <<>>]
    /\ session_sources = [m \in Managers |-> <<>>]
    /\ last_sources = [t \in SourceTools |-> <<>>]
    /\ call = NoCall
    /\ calls = 0
    /\ registrations = <<>>
    /\ shared = TRUE
    /\ serial = TRUE
    /\ qpc = [q \in Queries |-> "done"]
    /\ qcalls = [q \in Queries |-> 0]
    /\ qproduced = [q \in Queries |-> <<>>]
    /\ qread = [q \in Queries |-> <<>>]
    /\ cited = FALSE

(* ---------------------------- actions ---------------------------------- *)

\* raise e: nothing in generate_response catches it
Raise(m) ==
    /\ outcome' = "raised"
    /\ exc' = m
    /\ pc' = "done"

\* ReturnFirstText with a fault: the first block is returned from whatever its
\* type, so a tool_use block yields its empty text (sensitivity of C27)
ReturnFirstText_AnyBlock(r) ==
    IF r.content = <<>>
    THEN Raise(<<"IndexError">>) /\ UNCHANGED ret
    ELSE /\ outcome' = "returned"
         /\ ret' = r.content[1].text
         /\ pc' = "done"
         /\ UNCHANGED exc

\* return r.content[0].text: an empty content list has no first block
\* (IndexError) and a tool_use block has no text attribute (AttributeError)
ReturnFirstText(r) ==
    IF r.content = <<>>
    THEN Raise(<<"IndexError">>) /\ UNCHANGED ret
    ELSE IF r.content[1].type # "text"
         THEN Raise(<<"AttributeError">>) /\ UNCHANGED ret
         ELSE /\ outcome' = "returned"
              /\ ret' = r.content[1].text
              /\ pc' = "done"
              /\ UNCHANGED exc

\* ai_generator.py:81-95: a round starts and issues its model request
StartRound ==
    /\ pc = "loop"
    /\ InRange(round_num, max_rounds)
    /\ requests' = Append(requests, LoopParams(messages, tools))
    /\ attempt' = 0
    /\ slept' = <<>>
    /\ e' = <<>>
    /\ caller' = "loop"
    /\ pc' = "api"
    /\ UNCHANGED << registry_vars, args, legacy, messages, round_num, response, tool_results, block_idx,
                    responses, executed, batches, outcome, ret, exc >>

\* ai_generator.py:81: range(max_rounds) is exhausted
LoopExhausted ==
    /\ pc = "loop"
    /\ ~ InRange(round_num, max_rounds)
    /\ pc' = "after"
    /\ UNCHANGED << registry_vars, args, legacy, messages, round_num, response, tool_results, block_idx,
                    caller, attempt, slept, e, requests, responses, executed, batches,
                    outcome, ret, exc >>

\* ai_generator.py:142 and 98-112: an attempt of an in-loop request returns; the
\* response is appended and examined
RoundResponse ==
    /\ pc = "api"
    /\ caller = "loop"
    /\ \E r \in Responses(Len(requests)) :
          /\ response' = r
          /\ responses' = Append(responses, r)
          /\ messages' = Append(messages, AssistantTurn(r))
          /\ IF WantsTools(r, tool_manager)
             THEN /\ pc' = "exec"
                  /\ block_idx' = 1
                  /\ batches' = batches + 1
             ELSE /\ pc' = "after"
                  /\ UNCHANGED << block_idx, batches >>
    /\ tool_results' = <<>>
    /\ attempt' = 0
    /\ slept' = <<>>
    /\ e' = <<>>
    /\ UNCHANGED << registry_vars, args, legacy, round_num, caller, requests, executed, outcome, ret, exc >>

\* ai_generator.py:142 and 123-124: an attempt of the synthesis request returns;
\* the text of its response is returned
SynthesisResponse ==
    /\ pc = "api"
    /\ caller = "final"
    /\ \E r \in Responses(Len(requests)) :
          /\ responses' = Append(responses, r)
          /\ ReturnFirstText(r)
    /\ attempt' = 0
    /\ slept' = <<>>
    /\ e' = <<>>
    /\ UNCHANGED << registry_vars, args, legacy, messages, round_num, response, tool_results, block_idx,
                    caller, requests, executed, batches >>

\* ai_generator.py:143-153: an attempt of client.messages.create raises
ApiAttemptRaises ==
    /\ pc = "api"
    /\ \E m \in ErrMsgs :
          /\ e' = m
          /\ IF IsLastAttempt(attempt)
             THEN Raise(m) /\ UNCHANGED << attempt, slept >>
             ELSE IF IsTransientApiError(m)
                  THEN /\ slept' = Append(slept, BackoffDelay(attempt))
                       /\ attempt' = attempt + 1
                       /\ UNCHANGED << pc, outcome, exc >>
                  ELSE Raise(m) /\ UNCHANGED << attempt, slept >>
    /\ UNCHANGED << registry_vars, args, legacy, messages, round_num, response, tool_results, block_idx,
                    caller, requests, responses, executed, batches, ret >>

\* ai_generator.py:168-169: a block that is not a tool_use block is passed over
SkipBlock ==
    /\ pc = "exec"
    /\ block_idx <= Len(response.content)
    /\ response.content[block_idx].type # "tool_use"
    /\ block_idx' = block_idx + 1
    /\ UNCHANGED << registry_vars, args, legacy, messages, round_num, response, tool_results, pc, caller,
                    attempt, slept, e, requests, responses, executed, batches,
                    outcome, ret, exc >>

\* ai_generator.py:170-180: execute_tool returns and its result is recorded
ToolCallReturns ==
    /\ pc = "exec"
    /\ block_idx <= Len(response.content)
    /\ response.content[block_idx].type = "tool_use"
    /\ \E tool_result \in ToolReturns :
          LET block == response.content[block_idx]
          IN  /\ tool_results' = Append(tool_results, ToolResultEntry(block, tool_result))
              /\ executed' = Append(executed,
                     [id |-> block.id, batch |-> batches, raised |-> FALSE, msg |-> <<>>])
    /\ block_idx' = block_idx + 1
    /\ UNCHANGED << registry_vars, args, legacy, messages, round_num, response, pc, caller, attempt, slept, e,
                    requests, responses, batches, outcome, ret, exc >>

\* ai_generator.py:182-194 and 107-109: execute_tool raises
ToolCallRaises ==
    /\ pc = "exec"
    /\ block_idx <= Len(response.content)
    /\ response.content[block_idx].type = "tool_use"
    /\ \E m \in ToolErrMsgs :
          LET block == response.content[block_idx]
          IN  /\ executed' = Append(executed,
                     [id |-> block.id, batch |-> batches, raised |-> TRUE, msg |-> m])
              /\ IF IsTransientToolError(m)
                 THEN \* return None; the caller breaks out of the loop
                      /\ tool_results' = <<>>
                      /\ pc' = "after"
                      /\ UNCHANGED block_idx
                 ELSE /\ tool_results' = RecordFailure(tool_results, block, m)
                      /\ block_idx' = block_idx + 1
                      /\ UNCHANGED pc
    /\ UNCHANGED << registry_vars, args, legacy, messages, round_num, response, caller, attempt, slept, e,
                    requests, responses, batches, outcome, ret, exc >>

\* ai_generator.py:196 and 104-109: the batch is over
EndBatch ==
    /\ pc = "exec"
    /\ block_idx > Len(response.content)
    /\ IF BatchResult(tool_results) # <<>>
       THEN /\ messages' = Append(messages, ToolResultTurn(BatchResult(tool_results)))
            /\ round_num' = round_num + 1
            /\ pc' = "loop"
       ELSE /\ pc' = "after"
            /\ UNCHANGED << messages, round_num >>
    /\ tool_results' = <<>>
    /\ UNCHANGED << registry_vars, args, legacy, response, block_idx, caller, attempt, slept, e, requests,
                    responses, executed, batches, outcome, ret, exc >>

\* ai_generator.py:115-123: the forced synthesis request is issued
StartSynthesis ==
    /\ pc = "after"
    /\ NeedsSynthesis(messages)
    /\ requests' = Append(requests, FinalParams(messages))
    /\ attempt' = 0
    /\ slept' = <<>>
    /\ e' = <<>>
    /\ caller' = "final"
    /\ pc' = "api"
    /\ UNCHANGED << registry_vars, args, legacy, messages, round_num, response, tool_results, block_idx,
                    responses, executed, batches, outcome, ret, exc >>

\* ai_generator.py:125-127: the last in-loop response is returned
ReturnLast ==
    /\ pc = "after"
    /\ ~ NeedsSynthesis(messages)
    /\ ReturnFirstText(response)
    /\ UNCHANGED << registry_vars, args, legacy, messages, round_num, response, tool_results, block_idx,
                    caller, attempt, slept, e, requests, responses, executed, batches >>

Next ==
    \/ StartRound
    \/ LoopExhausted
    \/ RoundResponse
    \/ SynthesisResponse
    \/ ApiAttemptRaises
    \/ SkipBlock
    \/ ToolCallReturns
    \/ ToolCallRaises
    \/ EndBatch
    \/ StartSynthesis
    \/ ReturnLast

Spec == Init /\ [][Next]_vars

(* ------------------- vocabulary of the properties ---------------------- *)

\* the in-loop requests and the forced synthesis requests issued so far
LoopRequests == { k \in DOMAIN requests : requests[k].site = "loop" }

FinalRequests == { k \in DOMAIN requests : requests[k].site = "final" }

\* the text of a response's first block, <<>> when it has none
TextOf(r) ==
    IF r.content # <<>> /\ r.content[1].type = "text" THEN r.content[1].text ELSE <<>>

\* the tool_use blocks of a content list, in order
RECURSIVE ToolUses(_)
ToolUses(c) ==
    IF c = <<>> THEN <<>>
    ELSE IF Head(c).type = "tool_use" THEN <<Head(c)>> \o ToolUses(Tail(c))
         ELSE ToolUses(Tail(c))

\* the tool-result turns of the message list
ToolResultTurns == { i \in DOMAIN messages : i > 1 /\ messages[i].role = "user" }

\* a message 'containing rate limit or network'
HasToolTransientSignature(m) ==
    Contains(Lower(m), "rate limit") \/ Contains(Lower(m), "network")

\* a message 'containing rate limit, network or connection'
HasApiTransientSignature(m) ==
    \/ Contains(Lower(m), "rate limit")
    \/ Contains(Lower(m), "network")
    \/ Contains(Lower(m), "connection")

\* the tool calls of batch b that raised a transient-classified error
TransientRaisesIn(b) ==
    { j \in DOMAIN executed :
        executed[j].batch = b /\ executed[j].raised
        /\ HasToolTransientSignature(executed[j].msg) }

\* the tool calls that raised a non-transient error
NonTransientRaises ==
    { j \in DOMAIN executed :
        executed[j].raised /\ ~ HasToolTransientSignature(executed[j].msg) }

(* ------------------------------ C1 ------------------------------------- *)

\* C1: for max_rounds N >= 1 a call issues at most N+1 model requests (retries
\* of a request not counted): at most N in-loop requests and at most one
\* forced synthesis request.
C1_AtMostNPlusOneRequests ==
    max_rounds >= 1 =>
        /\ Len(requests) <= max_rounds + 1
        /\ Cardinality(LoopRequests) <= max_rounds
        /\ Cardinality(FinalRequests) <= 1

C1_Witness ==
    /\ pc = "done"
    /\ max_rounds = 2
    /\ Cardinality(LoopRequests) = 2
    /\ Cardinality(FinalRequests) = 1

(* ------------------------------ C2 ------------------------------------- *)

\* a tool manager is supplied and each of the N in-loop responses asked for tools
AllRoundsAskedForTools ==
    /\ tool_manager
    /\ max_rounds >= 1
    /\ Cardinality(LoopRequests) = max_rounds
    /\ Len(responses) >= max_rounds
    /\ \A k \in 1..max_rounds : responses[k].stop_reason = "tool_use"

\* N batches, N+1 requests, and what is returned is the (N+1)-th response's text
NBatchesThenSynthesis ==
    /\ batches = max_rounds
    /\ Len(requests) = max_rounds + 1
    /\ outcome = "returned" =>
          /\ Len(responses) = max_rounds + 1
          /\ ret = TextOf(responses[max_rounds + 1])

FirstResponseEndsTheLoop ==
    /\ max_rounds >= 1
    /\ Len(responses) >= 1
    /\ responses[1].stop_reason # "tool_use" \/ ~ tool_manager

\* C4: if the first response does not request tool use, or no tool manager
\* is supplied, then for every max_rounds >= 1 exactly one model request is
\* issued, no tool is executed, and the text returned is the first response's.
C4_NoToolUseMeansOneRequest ==
    FirstResponseEndsTheLoop =>
        /\ Len(requests) = 1
        /\ executed = <<>>
        /\ batches = 0
        /\ outcome = "returned" => ret = TextOf(responses[1])

C4_Witness ==
    /\ pc = "done"
    /\ outcome = "returned"
    /\ max_rounds = 2
    /\ tools
    /\ tool_manager
    /\ responses[1].stop_reason = "end_turn"
    /\ Len(requests) = 1

(* ------------------------------ C5 ------------------------------------- *)

\* the failed call executed[j] is visible in its round's tool-result turn, the
\* other invocations of the round ran, and a further model request followed
FailureIsFedBack(j) ==
    LET x == executed[j]
        a == 2 * x.batch
    IN  /\ Len(messages) >= a + 1
        /\ messages[a + 1].role = "user"
        /\ \E i \in DOMAIN messages[a + 1].content :
              /\ messages[a + 1].content[i].tool_use_id = x.id
              /\ messages[a + 1].content[i].content = <<"Tool execution failed: ">> \o x.msg
        /\ \A i \in DOMAIN messages[a].content :
              messages[a].content[i].type = "tool_use" =>
                  \E j2 \in DOMAIN executed : executed[j2].id = messages[a].content[i].id
        /\ Len(requests) >= x.batch + 1

IsToolResultContent(c) ==
    c # <<>> /\ \A j \in DOMAIN c : c[j].type = "tool_result"

\* C6: the message sequence always starts with the user turn holding the raw
\* query, its roles alternate user, assistant, user, ..., every user turn after
\* the first is a tool-result turn and no two adjacent turns share a role.
C6_RolesAlternate ==
    /\ messages[1].role = "user"
    /\ messages[1].content = query
    /\ \A i \in DOMAIN messages :
          messages[i].role = IF i % 2 = 1 THEN "user" ELSE "assistant"
    /\ \A i \in ToolResultTurns : IsToolResultContent(messages[i].content)
    /\ \A i \in 1..(Len(messages) - 1) : messages[i].role # messages[i + 1].role

C6_Witness ==
    /\ pc = "done"
    /\ Len(messages) = 5
    /\ messages[5].role = "user"
    /\ messages[4].role = "assistant"

(* ------------------------------ C7 ------------------------------------- *)

\* C7: every tool-result turn has role 'user' and exactly one tool_result
\* entry per tool_use block of the assistant turn before it, in the same order,
\* the i-th entry carrying the tool_use_id of the i-th tool_use block.
C7_OneEntryPerToolUse ==
    \A i \in ToolResultTurns :
        LET uses == ToolUses(messages[i - 1].content)
            entries == messages[i].content
        IN  /\ messages[i].role = "user"
            /\ messages[i - 1].role = "assistant"
            /\ Len(entries) = Len(uses)
            /\ \A j \in DOMAIN entries :
                  /\ entries[j].type = "tool_result"
                  /\ entries[j].tool_use_id = uses[j].id

C7_Witness ==
    \E i \in ToolResultTurns :
        /\ Len(messages[i].content) = 2
        /\ messages[i].content[1].content # <<"Tool result">>
        /\ messages[i].content[2].content = <<"Tool result">>

(* ------------------------------ C8 ------------------------------------- *)

\* what every request carries: the tools with tool_choice 'auto' in the loop
\* iff a non-empty tools list was supplied, neither in the synthesis request
RequestsCarryToolsAsSupplied ==
    \A k \in DOMAIN requests :
        /\ requests[k].site = "loop" =>
              /\ requests[k].tools <=> tools
              /\ requests[k].tool_choice = "auto" <=> tools
        /\ requests[k].site = "final" =>
              /\ ~ requests[k].tools
              /\ requests[k].tool_choice = "absent"

\* the last turn of a message list is a tool-result turn
EndsWithToolResults(msgs) == Len(msgs) > 1 /\ msgs[Len(msgs)].role = "user"

\* the call got past its loop to one of its return statements (no model request
\* failed)
ReachedReturn == pc = "done" /\ ~ (outcome = "raised" /\ exc \in ErrMsgs)

AttemptFails == pc = "api" /\ responses' = responses /\ vars' # vars

\* a step in which an attempt of the request under way succeeds
AttemptSucceeds == pc = "api" /\ responses' # responses

\* the delays slept so far are 1, 2, ...: 2^0, 2^1, ...
DelaysDouble(sl, n) == sl = [i \in 1..n |-> 2 ^ (i - 1)]

C9_Step ==
    /\ attempt <= max_retries /\ attempt' <= max_retries
    /\ DelaysDouble(slept, attempt) /\ DelaysDouble(slept', attempt')
    /\ (AttemptFails /\ HasApiTransientSignature(e') /\ attempt < max_retries) =>
          /\ pc' = "api"
          /\ attempt' = attempt + 1
          /\ slept' = Append(slept, 2 ^ attempt)
          /\ outcome' = "running"
          /\ requests' = requests
    /\ (AttemptFails /\ attempt = max_retries) =>
          /\ outcome' = "raised"
          /\ exc' = e'
          /\ pc' = "done"
          /\ slept' = slept
    /\ AttemptSucceeds =>
          LET r == responses'[Len(responses')]
          IN  /\ Len(responses') = Len(requests)
              /\ pc' # "api"
              /\ requests' = requests
              /\ caller = "loop" =>
                    /\ response' = r
                    /\ messages' = Append(messages, [role |-> "assistant", content |-> r.content])
              /\ (caller = "final" /\ outcome' = "returned") => ret' = TextOf(r)

\* C9: a model request that fails with a transient-classified error ('rate
\* limit', 'network' or 'connection') is retried after 2^attempt seconds (1,
\* then 2), with at most max_retries + 1 = 3 attempts; the first successful
\* attempt's response is used, and when every attempt fails the last error
\* propagates out of generate_response.
C9_TransientErrorsAreRetriedWithBackoff == [][C9_Step]_vars

C9_Witness ==
    /\ pc = "api"
    /\ attempt = 2
    /\ slept = <<1, 2>>
    /\ HasApiTransientSignature(e)
    /\ Len(requests) = 2

(* ------------------------------ C10 ------------------------------------ *)

\* a message with none of the three signatures
HasNoTransientSignature(m) == m \in ErrMsgs /\ ~ HasApiTransientSignature(m)

\* C10 as stated: a model request that fails with an error whose message has
\* none of the signatures has made exactly one attempt, without any delay.
C10_Original ==
    (outcome = "raised" /\ HasNoTransientSignature(exc)) =>
        attempt = 0 /\ slept = <<>>

C10_Step ==
    /\ (AttemptFails /\ HasNoTransientSignature(e')) =>
          /\ outcome' = "raised"
          /\ exc' = e'
          /\ pc' = "done"
          /\ attempt' = attempt
          /\ slept' = slept
          /\ requests' = requests
          /\ executed' = executed
          /\ attempt = 0 => slept' = <<>>
    /\ pc = "done" => vars' = vars

\* C10, amended: an attempt of a model request that fails with an error whose
\* message has none of the signatures is the last attempt of that request: the
\* error propagates immediately out of generate_response, no retry and no
\* delay follow it and no later model request or tool execution happens for
\* the query. Exactly one attempt was made, without delay, when the failing
\* attempt is the first; attempts that failed before it with a transient error
\* were retried.
C10_OtherErrorsPropagateAtOnce == [][C10_Step]_vars

C10_Witness ==
    /\ outcome = "raised"
    /\ HasNoTransientSignature(exc)
    /\ attempt = 0
    /\ slept = <<>>
    /\ Len(requests) = 2
    /\ executed # <<>>

(* ======================================================================== *)
(* search_tools.py: the tools and the ToolManager                            *)
(* ======================================================================== *)

\* bounds of the registry model
\* hits of one search
MaxHits == 2
\* tool executions between two resets, and per query
MaxCalls == 2
\* successful registrations with one manager
MaxRegistrations == 3
\* lessons of one course
MaxLessons == 2

(* ------------------------- Python values --------------------------------- *)

\* truth value of an optional integer: None and 0 are false
TruthyInt(o) == o # None /\ o[1] # 0

\* "sep".join(parts)
RECURSIVE Join(_, _)
Join(parts, sep) ==
    IF parts = <<>> THEN ""
    ELSE IF Len(parts) = 1 THEN parts[1]
         ELSE parts[1] \o sep \o Join(Tail(parts), sep)

\* zip(a, b) stops at the shorter one
ZipLen(a, b) == IF Len(a) <= Len(b) THEN Len(a) ELSE Len(b)

(* ------------------- the document store (collaborator) ------------------- *)

\* what the tools are asked with
CourseNames == {None, Some(""), Some("MCP")}
LessonNumbers == {None, Some(0), Some(1)}

\* metadata of a hit: lesson_number may be missing, and so may course_title
Metas ==
    { [course_title |-> Some("MCP"), lesson_number |-> Some(0)],
      [course_title |-> Some("MCP"), lesson_number |-> Some(1)],
      [course_title |-> Some("MCP"), lesson_number |-> None],
      [course_title |-> None, lesson_number |-> Some(0)] }
StoreErrors == {"Database connection error"}

\* SearchResults(documents, metadata, distances) and SearchResults.empty(msg)
SearchResults(documents, metadata, error) ==
    [documents |-> documents, metadata |-> metadata, error |-> error]

\* the results a search hands back: an error, no hit, or 1..n hits over metas
SearchOutcomes(metas, n) ==
    { SearchResults(<<>>, <<>>, Some(m)) : m \in StoreErrors }
    \cup { SearchResults(<<>>, <<>>, None) }
    \cup UNION { { SearchResults([i \in 1..k |-> "Passage " \o ToString(i)], md, None) :
                   md \in [1..k -> metas] } : k \in 1..n }

\* results that carry an error: SearchResults.empty(msg), and results that
\* carry an error next to a document
ErrorOutcomes ==
    { SearchResults(<<>>, <<>>, Some(m)) : m \in StoreErrors }
    \cup { SearchResults(<< "Passage 1" >>,
                         << [course_title |-> Some("MCP"), lesson_number |-> Some(0)] >>,
                         Some(m)) : m \in StoreErrors }

\* results.is_empty()
is_empty(results) == Len(results.documents) = 0

\* store.get_lesson_link(course_title, lesson_num): the link of the lesson, if
\* the catalog holds one; here lesson 0 of the course "MCP" has a link, its
\* lesson 1 has none, and no other course is known
get_lesson_link(course_title, lesson_num) ==
    IF course_title = "MCP" /\ lesson_num = 0
    THEN Some("https://example.com/lesson0")
    ELSE None

(* --------------------------- CourseSearchTool ---------------------------- *)

\* search_tools.py:98-99
CourseTitle(meta) ==
    IF meta.course_title = None THEN "unknown" ELSE meta.course_title[1]

\* search_tools.py:103-104 and 109-110
LessonSuffix(meta) ==
    IF meta.lesson_number # None
    THEN " - Lesson " \o ToString(meta.lesson_number[1])
    ELSE ""

\* search_tools.py:102-105
Header(meta) == "[" \o CourseTitle(meta) \o LessonSuffix(meta) \o "]"

\* LessonLink with a fault: the lesson number is tested for truth, so lesson 0
\* gets no link (sensitivity of C22)
LessonLink_Truthy(meta) ==
    IF TruthyInt(meta.lesson_number) /\ CourseTitle(meta) # "unknown"
    THEN get_lesson_link(CourseTitle(meta), meta.lesson_number[1])
    ELSE None

\* search_tools.py:113-115
LessonLink(meta) ==
    IF meta.lesson_number # None /\ CourseTitle(meta) # "unknown"
    THEN get_lesson_link(CourseTitle(meta), meta.lesson_number[1])
    ELSE None

\* search_tools.py:108-118
SourceData(meta) ==
    [display_text |-> CourseTitle(meta) \o LessonSuffix(meta),
     lesson_link |-> LessonLink(meta)]

\* format_results with a fault: the blocks are joined by one newline, with no
\* blank line between them (sensitivity of C23)
format_results_SingleNewline(results) ==
    LET k == ZipLen(results.documents, results.metadata) IN
    [text |-> Join([i \in 1..k |->
                       Header(results.metadata[i]) \o "\n" \o results.documents[i]],
                   "\n"),
     sources |-> [i \in 1..k |-> SourceData(results.metadata[i])]]

\* search_tools.py:92-126: the text and the sources of the hits
format_results(results) ==
    LET k == ZipLen(results.documents, results.metadata) IN
    [text |-> Join([i \in 1..k |->
                       Header(results.metadata[i]) \o "\n" \o results.documents[i]],
                   "\n\n"),
     sources |-> [i \in 1..k |-> SourceData(results.metadata[i])]]

\* search_tools.py:82-86
FilterInfo(course_name, lesson_number) ==
    (IF TruthyStr(course_name) THEN " in course '" \o course_name[1] \o "'" ELSE "")
    \o (IF TruthyInt(lesson_number)
        THEN " in lesson " \o ToString(lesson_number[1])
        ELSE "")

\* CourseSearchTool_execute with a fault: the store's error is wrapped in a
\* message of the tool (sensitivity of C21)
CourseSearchTool_execute_WrapsError(results, course_name, lesson_number, prev) ==
    IF TruthyStr(results.error)
    THEN [text |-> "Search failed: " \o results.error[1],
          produced |-> <<>>, last_sources |-> prev]
    ELSE IF is_empty(results)
         THEN [text |-> "No relevant content found"
                        \o FilterInfo(course_name, lesson_number) \o ".",
               produced |-> <<>>, last_sources |-> prev]
         ELSE [text |-> format_results(results).text,
               produced |-> format_results(results).sources,
               last_sources |-> format_results(results).sources]

\* search_tools.py:53-90: what execute returns, the citations it produced, and
\* the tool's last_sources afterwards (prev: last_sources before the call)
CourseSearchTool_execute(results, course_name, lesson_number, prev) ==
    IF TruthyStr(results.error)
    THEN [text |-> results.error[1], produced |-> <<>>, last_sources |-> prev]
    ELSE IF is_empty(results)
         THEN [text |-> "No relevant content found"
                        \o FilterInfo(course_name, lesson_number) \o ".",
               produced |-> <<>>, last_sources |-> prev]
         ELSE [text |-> format_results(results).text,
               produced |-> format_results(results).sources,
               last_sources |-> format_results(results).sources]

(* --------------------------- CourseOutlineTool --------------------------- *)

\* the lessons of lessons_json: lesson_number and lesson_title may be missing
Lessons ==
    { [lesson_number |-> Some(0), lesson_title |-> Some("Introduction")],
      [lesson_number |-> Some(1), lesson_title |-> Some("Advanced")],
      [lesson_number |-> None, lesson_title |-> None] }

\* the catalog's metadata of a course: title, course_link and instructor may be
\* missing or empty; lessons_json parses to a list of lessons or does not parse
CourseMetadata(title, course_link, instructor, json_ok, lessons) ==
    [title |-> title, course_link |-> course_link, instructor |-> instructor,
     json_ok |-> json_ok, lessons |-> lessons]

\* what the store answers to an outline request: the resolved title (None when
\* nothing matches), and then the catalog raising, holding no metadata, or
\* holding the metadata
OutlineResults(resolved, catalog, metadata) ==
    [resolved |-> resolved, catalog |-> catalog, metadata |-> metadata]

NoMetadata == CourseMetadata(None, None, None, TRUE, <<>>)
CatalogError == "catalog unavailable"

\* str(e) of the AttributeError of lesson.get (line 258) when lessons_json
\* parses to a list of numbers
FormatError == "'int' object has no attribute 'get'"

\* the catalog holds metadata whose lessons_json is valid JSON but no list of
\* lesson objects, so that rendering a lesson raises
UnrenderableOutcomes == { OutlineResults(Some("MCP"), "unrenderable", NoMetadata) }

OutlineOutcomes(metadatas) ==
    { OutlineResults(None, "none", NoMetadata) }
    \cup { OutlineResults(Some("MCP"), c, NoMetadata) : c \in {"none", "raises"} }
    \cup { OutlineResults(Some("MCP"), "found", md) : md \in metadatas }

\* search_tools.py:259-261
LessonLine(lesson) ==
    "  Lesson "
    \o (IF lesson.lesson_number = None THEN "" ELSE ToString(lesson.lesson_number[1]))
    \o ": "
    \o (IF lesson.lesson_title = None THEN "" ELSE lesson.lesson_title[1])

\* search_tools.py:236
OutlineTitle(metadata) ==
    IF metadata.title = None THEN "Unknown Course" ELSE metadata.title[1]

\* search_tools.py:237
OutlineLink(metadata) ==
    IF metadata.course_link = None THEN "" ELSE metadata.course_link[1]

\* search_tools.py:241-245: json.loads, [] when it does not parse
ParsedLessons(metadata) == IF metadata.json_ok THEN metadata.lessons ELSE <<>>

\* outline with a fault: the link line is put before the instructor line
\* (sensitivity of C25)
outline_LinkFirst(metadata) ==
    LET lessons == ParsedLessons(metadata) IN
    << "Course: " \o OutlineTitle(metadata) >>
    \o (IF TruthyStr(metadata.course_link)
        THEN << "Course Link: " \o metadata.course_link[1] >> ELSE <<>>)
    \o (IF TruthyStr(metadata.instructor)
        THEN << "Instructor: " \o metadata.instructor[1] >> ELSE <<>>)
    \o (IF lessons # <<>>
        THEN << "\nLessons:" >> \o [i \in 1..Len(lessons) |-> LessonLine(lessons[i])]
        ELSE << "\nNo lessons found" >>)

\* search_tools.py:248-263: the list `outline`
outline(metadata) ==
    LET lessons == ParsedLessons(metadata) IN
    << "Course: " \o OutlineTitle(metadata) >>
    \o (IF TruthyStr(metadata.instructor)
        THEN << "Instructor: " \o metadata.instructor[1] >> ELSE <<>>)
    \o (IF TruthyStr(metadata.course_link)
        THEN << "Course Link: " \o metadata.course_link[1] >> ELSE <<>>)
    \o (IF lessons # <<>>
        THEN << "\nLessons:" >> \o [i \in 1..Len(lessons) |-> LessonLine(lessons[i])]
        ELSE << "\nNo lessons found" >>)

\* source_data with a fault: the citation carries the title alone
\* (sensitivity of C26)
source_data_TitleOnly(metadata) ==
    [display_text |-> OutlineTitle(metadata),
     lesson_link |-> Some(OutlineLink(metadata))]

\* search_tools.py:266-269
source_data(metadata) ==
    [display_text |-> OutlineTitle(metadata) \o " - Course Outline",
     lesson_link |-> Some(OutlineLink(metadata))]

\* search_tools.py:232-272: the outline text and the one source
format_outline(metadata) ==
    [text |-> Join(outline(metadata), "\n"),
     sources |-> << source_data(metadata) >>]

\* NoCourseFound with a fault: the name is not quoted (sensitivity of C24)
NoCourseFound_Unquoted(course_name) == "No course found matching " \o course_name

\* search_tools.py:218
NoCourseFound(course_name) == "No course found matching '" \o course_name \o "'"

\* search_tools.py:222-227, the body of the try: the catalog lookup raises,
\* or holds no metadata, or holds metadata that _format_outline renders or
\* fails to render (last_sources is assigned at the end of _format_outline,
\* line 270)
OutlineAttempt(results, prev) ==
    IF results.catalog = "raises"
    THEN [text |-> "", produced |-> <<>>, last_sources |-> prev,
          catalog_queried |-> TRUE, raised |-> Some(CatalogError)]
    ELSE IF results.catalog = "none"
         THEN [text |-> "Course metadata not found for '" \o results.resolved[1] \o "'",
               produced |-> <<>>, last_sources |-> prev, catalog_queried |-> TRUE,
               raised |-> None]
         ELSE IF results.catalog = "unrenderable"
              THEN [text |-> "", produced |-> <<>>, last_sources |-> prev,
                    catalog_queried |-> TRUE, raised |-> Some(FormatError)]
              ELSE [text |-> format_outline(results.metadata).text,
                    produced |-> format_outline(results.metadata).sources,
                    last_sources |-> format_outline(results.metadata).sources,
                    catalog_queried |-> TRUE, raised |-> None]

\* Caught with a fault: the except clause is missing and the error leaves
\* execute (sensitivity of C36)
Caught_NotCaught(attempted) == attempted

\* search_tools.py:229-230: except Exception as e
Caught(attempted) ==
    IF attempted.raised # None
    THEN [attempted EXCEPT
             !.text = "Error retrieving course outline: " \o attempted.raised[1],
             !.raised = None]
    ELSE attempted

\* search_tools.py:205-230: what execute returns, the citations it produced, and
\* the tool's last_sources afterwards
CourseOutlineTool_execute(results, course_name, prev) ==
    IF ~ TruthyStr(results.resolved)
    THEN [text |-> NoCourseFound(course_name),
          produced |-> <<>>, last_sources |-> prev, catalog_queried |-> FALSE,
          raised |-> None]
    ELSE Caught(OutlineAttempt(results, prev))

(* ------------ a client calling one search tool: SpecSearchTool ---------- *)

\* the calls of execute and the store's answers: every filter combination with an
\* error (with and without a document) and with no hit, and 1..MaxHits hits
\* over Metas
SearchCalls ==
    { << c, n, r >> : c \in CourseNames, n \in LessonNumbers,
                      r \in { x \in SearchOutcomes(Metas, MaxHits) : is_empty(x) }
                             \cup ErrorOutcomes }
    \cup { << None, None, r >> : r \in SearchOutcomes(Metas, MaxHits) }

\* CourseSearchTool(vector_store): no search done yet
InitSearchTool ==
    /\ max_rounds = 0
    /\ tools = FALSE
    /\ tool_manager = FALSE
    /\ conversation_history = None
    /\ legacy = NoLegacy
    /\ messages = <<>>
    /\ round_num = 0
    /\ response = NoResponse
    /\ tool_results = <<>>
    /\ block_idx = 0
    /\ pc = "done"
    /\ caller = "none"
    /\ attempt = 0
    /\ slept = <<>>
    /\ e = <<>>
    /\ requests = <<>>
    /\ responses = <<>>
    /\ executed = <<>>
    /\ batches = 0
    /\ outcome = "returned"
    /\ ret = <<>>
    /\ exc = <<>>
    /\ tm_tools = [m \in Managers |-> <<>>]
    /\ session_sources = [m \in Managers |-> <<>>]
    /\ last_sources = [t \in SourceTools |-> <<>>]
    /\ call = NoCall
    /\ calls = 0
    /\ registrations = <<>>
    /\ shared = TRUE
    /\ serial = TRUE
    /\ qpc = [q \in Queries |-> "done"]
    /\ qcalls = [q \in Queries |-> 0]
    /\ qproduced = [q \in Queries |-> <<>>]
    /\ qread = [q \in Queries |-> <<>>]
    /\ cited = FALSE

\* search_tools.py:53-90: search_tool.execute(query, course_name, lesson_number)
SearchToolExecutes ==
    /\ \E in \in SearchCalls :
          LET done == CourseSearchTool_execute(in[3], in[1], in[2],
                                               last_sources["search_tool"])
          IN /\ last_sources' = [last_sources EXCEPT !["search_tool"] = done.last_sources]
             /\ call' = [NoCall EXCEPT
                            !.op = "execute", !.tool = "search_tool",
                            !.course_name = in[1], !.lesson_number = in[2],
                            !.results = in[3], !.produced = done.produced,
                            !.text = done.text]
    /\ UNCHANGED << vars, tm_tools, session_sources, calls, registrations,
                    shared, serial, qpc, qcalls, qproduced, qread, cited >>

NextSearchTool == SearchToolExecutes

SpecSearchTool == InitSearchTool /\ [][NextSearchTool]_registry_vars

\* a search that ended with no hit and no error
ZeroHits ==
    /\ call.op = "execute"
    /\ call.tool \in SearchTools
    /\ call.results.error = None
    /\ Len(call.results.documents) = 0

\* C20: with zero hits and no store error, execute returns "No relevant content
\* found", then " in course '<c>'" when a course filter c is given, then
\* " in lesson <n>" when a lesson filter n is given, then "."; for every course
\* name or none, and every lesson number or none
C20_NoContentMessageNamesTheFilters ==
    (ZeroHits /\ call.course_name # Some("")) =>
        call.text =
            "No relevant content found"
            \o (IF call.course_name # None
                THEN " in course '" \o call.course_name[1] \o "'" ELSE "")
            \o (IF call.lesson_number # None
                THEN " in lesson " \o ToString(call.lesson_number[1]) ELSE "")
            \o "."

(* ------------------------------ C22, C23 -------------------------------- *)

\* a search that ended with at least one hit and no error
HitsFound ==
    /\ call.op = "execute"
    /\ call.tool \in SearchTools
    /\ call.results.error = None
    /\ Len(call.results.documents) >= 1

\* the course a hit is shown under: its course title, 'unknown' when the hit
\* carries none
CourseOf(meta) == IF meta.course_title = None THEN "unknown" ELSE meta.course_title[1]

\* '<course> - Lesson <n>', or '<course>' when the hit has no lesson number
DisplayText(meta) ==
    IF meta.lesson_number = None
    THEN CourseOf(meta)
    ELSE CourseOf(meta) \o " - Lesson " \o ToString(meta.lesson_number[1])

Block(i) ==
    "[" \o DisplayText(call.results.metadata[i]) \o "]" \o "\n" \o call.results.documents[i]

\* the blocks 1..k, each two followed by a blank line between them
RECURSIVE BlocksUpTo(_)
BlocksUpTo(k) ==
    IF k = 1 THEN Block(1) ELSE BlocksUpTo(k - 1) \o "\n\n" \o Block(k)

\* C23: the text a search with k >= 1 hits returns is its k blocks in hit order
\* joined by blank lines, the i-th being the header '[<course> - Lesson <n>]'
\* ('[<course>]' when the hit has no lesson number) on a line of its own
\* followed by the i-th passage
C23_BlocksJoinedByBlankLines ==
    HitsFound => call.text = BlocksUpTo(Len(call.results.documents))

\* two hits were rendered, one with and one without a lesson number
C23_Witness ==
    /\ HitsFound
    /\ Len(call.results.documents) = 2
    /\ call.results.metadata[1].lesson_number = Some(0)
    /\ call.results.metadata[2].lesson_number = None
    /\ call.text = "[MCP - Lesson 0]\nPassage 1\n\n[MCP]\nPassage 2"

(* ----------- a client calling one outline tool: SpecOutlineTool --------- *)

\* the metadata the catalog holds for a course: with and without a title, an
\* instructor and a link (the link also empty), and with lessons_json holding
\* 0..MaxLessons lessons or not parsing
OutlineMetadatas ==
    { CourseMetadata(t, l, i, TRUE, ls) :
        t \in {None, Some("MCP")},
        l \in {None, Some(""), Some("https://example.com/mcp")},
        i \in {None, Some("Ann")},
        ls \in UNION { [1..k -> Lessons] : k \in 0..MaxLessons } }
    \cup { CourseMetadata(t, l, i, FALSE, <<>>) :
        t \in {None, Some("MCP")},
        l \in {None, Some(""), Some("https://example.com/mcp")},
        i \in {None, Some("Ann")} }

\* the calls of execute and the store's answers: a name that resolves to a
\* course with metadata, and names for which the store finds no course, or has
\* no metadata, or fails
OutlineCalls ==
    { << n, r >> : n \in {"Zzz", "MCP's"},
                   r \in { x \in OutlineOutcomes(OutlineMetadatas) : x.catalog # "found" } }
    \cup { << "MCP", r >> : r \in OutlineOutcomes(OutlineMetadatas) \cup UnrenderableOutcomes }

\* CourseOutlineTool(vector_store): no outline rendered yet
InitOutlineTool ==
    /\ max_rounds = 0
    /\ tools = FALSE
    /\ tool_manager = FALSE
    /\ conversation_history = None
    /\ legacy = NoLegacy
    /\ messages = <<>>
    /\ round_num = 0
    /\ response = NoResponse
    /\ tool_results = <<>>
    /\ block_idx = 0
    /\ pc = "done"
    /\ caller = "none"
    /\ attempt = 0
    /\ slept = <<>>
    /\ e = <<>>
    /\ requests = <<>>
    /\ responses = <<>>
    /\ executed = <<>>
    /\ batches = 0
    /\ outcome = "returned"
    /\ ret = <<>>
    /\ exc = <<>>
    /\ tm_tools = [m \in Managers |-> <<>>]
    /\ session_sources = [m \in Managers |-> <<>>]
    /\ last_sources = [t \in SourceTools |-> <<>>]
    /\ call = NoCall
    /\ calls = 0
    /\ registrations = <<>>
    /\ shared = TRUE
    /\ serial = TRUE
    /\ qpc = [q \in Queries |-> "done"]
    /\ qcalls = [q \in Queries |-> 0]
    /\ qproduced = [q \in Queries |-> <<>>]
    /\ qread = [q \in Queries |-> <<>>]
    /\ cited = FALSE

\* search_tools.py:205-230: outline_tool.execute(course_name)
OutlineToolExecutes ==
    /\ \E in \in OutlineCalls :
          LET done == CourseOutlineTool_execute(in[2], in[1], last_sources["outline_tool"])
          IN /\ last_sources' = [last_sources EXCEPT !["outline_tool"] = done.last_sources]
             /\ call' = [NoCall EXCEPT
                            !.op = "execute", !.tool = "outline_tool",
                            !.course_name = Some(in[1]), !.results = in[2],
                            !.produced = done.produced, !.text = done.text,
                            !.catalog_queried = done.catalog_queried,
                            !.raised = IF done.raised = None THEN "" ELSE "Exception"]
    /\ UNCHANGED << vars, tm_tools, session_sources, calls, registrations,
                    shared, serial, qpc, qcalls, qproduced, qread, cited >>

NextOutlineTool == OutlineToolExecutes

SpecOutlineTool == InitOutlineTool /\ [][NextOutlineTool]_registry_vars

(* ------------------------------ C24 -------------------------------------- *)

\* an outline request for a name the store resolved to no course
Unresolved ==
    /\ call.op = "execute"
    /\ call.tool \in OutlineTools
    /\ call.results.resolved = None

\* C24: for a course name the store cannot resolve, execute returns
\* "No course found matching '<name>'" with the name as given, does not query
\* the catalog and does not raise
C24_UnresolvedNameIsReported ==
    Unresolved =>
        /\ call.text = "No course found matching '" \o call.course_name[1] \o "'"
        /\ ~ call.catalog_queried
        /\ call.raised = ""

\* a name holding a quote was not resolved, after an outline had been rendered
C24_Witness ==
    /\ Unresolved
    /\ call.course_name = Some("MCP's")
    /\ call.text = "No course found matching 'MCP's'"
    /\ last_sources["outline_tool"] # <<>>

(* ------------------------------ C25 -------------------------------------- *)

\* an outline request that rendered the metadata of the resolved course
Rendered ==
    /\ call.op = "execute"
    /\ call.tool \in OutlineTools
    /\ call.results.resolved # None
    /\ call.results.catalog = "found"

\* the lessons of the rendered course, none when lessons_json does not parse
StoredLessons ==
    IF call.results.metadata.json_ok THEN call.results.metadata.lessons ELSE <<>>

\* a field of the metadata as text: empty when it is missing
Shown(field) == IF field = None THEN "" ELSE field[1]

\* 'Lesson <n>: <title>', as the outline indents it
LessonLineOf(lesson) ==
    "  Lesson "
    \o (IF lesson.lesson_number = None THEN "" ELSE ToString(lesson.lesson_number[1]))
    \o ": " \o Shown(lesson.lesson_title)

\* the lesson lines 1..k, one per line
RECURSIVE LessonLinesUpTo(_)
LessonLinesUpTo(k) ==
    IF k = 0 THEN ""
    ELSE LessonLinesUpTo(k - 1) \o "\n" \o LessonLineOf(StoredLessons[k])

\* C25: the outline of a resolved course is, in this order, the title line, an
\* instructor line only if an instructor is present, a link line only if a
\* course link is present, and then, after a blank line, either the heading
\* 'Lessons:' with one line 'Lesson <n>: <title>' per lesson in stored order, or
\* the one line 'No lessons found' when there is no lesson
C25_OutlineLinesInOrder ==
    Rendered =>
        LET md == call.results.metadata IN
        call.text =
            "Course: " \o (IF md.title = None THEN "Unknown Course" ELSE md.title[1])
            \o (IF Shown(md.instructor) # ""
                THEN "\n" \o "Instructor: " \o md.instructor[1] ELSE "")
            \o (IF Shown(md.course_link) # ""
                THEN "\n" \o "Course Link: " \o md.course_link[1] ELSE "")
            \o "\n\n"
            \o (IF Len(StoredLessons) = 0
                THEN "No lessons found"
                ELSE "Lessons:" \o LessonLinesUpTo(Len(StoredLessons)))

\* an outline with an instructor, a link and two lessons was rendered
C25_Witness ==
    /\ Rendered
    /\ call.text = "Course: MCP\nInstructor: Ann\nCourse Link: https://example.com/mcp"
                   \o "\n\nLessons:\n  Lesson 1: Advanced\n  Lesson 0: Introduction"

(* ------------------------------ C26 -------------------------------------- *)

\* C26: a call that renders an outline leaves the tool with exactly one last
\* citation, '<title> - Course Outline' with the course link, whatever its
\* citations were before and however many lessons the course has
C26_Step ==
    Rendered' =>
        LET md == call'.results.metadata
            src == last_sources'["outline_tool"]
        IN  /\ Len(src) = 1
            /\ src[1].display_text =
                  (IF md.title = None THEN "Unknown Course" ELSE md.title[1])
                  \o " - Course Outline"
            /\ src[1].lesson_link = Some(Shown(md.course_link))

C26_OutlineLeavesOneCitation == [][C26_Step]_registry_vars

\* a course with two lessons was rendered and the tool holds the one citation
\* of its outline
C26_Witness ==
    /\ Rendered
    /\ Len(StoredLessons) = 2
    /\ call.results.metadata.title = Some("MCP")
    /\ call.results.metadata.course_link = Some("https://example.com/mcp")
    /\ last_sources["outline_tool"] =
          << [display_text |-> "MCP - Course Outline",
              lesson_link |-> Some("https://example.com/mcp")] >>

(* ------------------------------ ToolManager ------------------------------ *)

\* tools that can be handed to register_tool: the four above and two whose
\* definition has no name (the key is missing, or its value is empty)
NamelessTools == {"tool_without_name", "tool_with_empty_name"}
ToolObjects == SourceTools \cup NamelessTools

\* tool.get_tool_definition().get("name")
DefinitionName(tool) ==
    IF tool \in SearchTools THEN Some("search_course_content")
    ELSE IF tool \in OutlineTools THEN Some("get_course_outline")
         ELSE IF tool = "tool_with_empty_name" THEN Some("") ELSE None

\* hasattr(tool, "last_sources")
HasLastSources(tool) == tool \in SourceTools

\* a dict as the sequence of its (key, value) items in insertion order
Keys(d) == [i \in 1..Len(d) |-> d[i][1]]
Values(d) == [i \in 1..Len(d) |-> d[i][2]]
HasKey(d, k) == \E i \in 1..Len(d) : d[i][1] = k
Get(d, k) == d[CHOOSE i \in 1..Len(d) : d[i][1] = k][2]

\* d[k] = v with a fault: a key set again moves to the end (sensitivity of C18)
SetItem_MovesToEnd(d, k, v) ==
    Append(SelectSeq(d, LAMBDA item : item[1] # k), << k, v >>)

\* d[k] = v: a new key is appended, a key set again keeps its place
SetItem(d, k, v) ==
    IF HasKey(d, k)
    THEN [i \in 1..Len(d) |-> IF d[i][1] = k THEN << k, v >> ELSE d[i]]
    ELSE Append(d, << k, v >>)

\* the record of a call on manager m
Called(op, m) == [NoCall EXCEPT !.op = op, !.manager = m]

\* the test of the name with a fault: only a missing name is refused, an empty
\* one passes (sensitivity of C19)
Named_KeyPresent(tool) == DefinitionName(tool) # None

\* search_tools.py:138-141: the definition names the tool
Named(tool) == TruthyStr(DefinitionName(tool))

\* search_tools.py:136-142: the effect of register_tool
register_tool(m, tool) ==
    /\ tm_tools' = IF Named(tool)
                   THEN [tm_tools EXCEPT ![m] = SetItem(@, DefinitionName(tool)[1], tool)]
                   ELSE tm_tools
    /\ UNCHANGED << session_sources, last_sources >>

\* search_tools.py:136-142: how register_tool ends
register_tool_call(m, tool) ==
    IF Named(tool)
    THEN [Called("register_tool", m) EXCEPT
             !.tool = tool, !.tool_name = DefinitionName(tool)[1]]
    ELSE [Called("register_tool", m) EXCEPT
             !.tool = tool,
             !.raised = "ValueError: Tool must have a 'name' in its definition"]

\* search_tools.py:144-146: the names of the definitions returned
get_tool_definitions_call(m) ==
    [Called("get_tool_definitions", m) EXCEPT
        !.list = [i \in 1..Len(tm_tools[m]) |->
                    DefinitionName(Values(tm_tools[m])[i])[1]]]

\* what tool.execute returns for the store's answer, the citations it produced and
\* its last_sources afterwards: search_tools.py:53-90 or 205-230
Execute(tool, course_name, lesson_number, results) ==
    IF tool \in SearchTools
    THEN CourseSearchTool_execute(results, course_name, lesson_number,
                                  last_sources[tool])
    ELSE CourseOutlineTool_execute(results, course_name[1], last_sources[tool])

\* search_tools.py:156-157: what the call adds to the session log
Accumulated(tool, done) ==
    IF HasLastSources(tool) THEN done.last_sources ELSE <<>>

\* search_tools.py:148-159: the effect of execute_tool
execute_tool(m, tool_name, course_name, lesson_number, results) ==
    IF ~ HasKey(tm_tools[m], tool_name)
    THEN UNCHANGED << tm_tools, session_sources, last_sources >>
    ELSE LET tool == Get(tm_tools[m], tool_name)
             done == Execute(tool, course_name, lesson_number, results)
         IN /\ last_sources' = [last_sources EXCEPT ![tool] = done.last_sources]
            /\ session_sources' =
                   [session_sources EXCEPT ![m] = @ \o Accumulated(tool, done)]
            /\ UNCHANGED tm_tools

\* execute_tool with a fault: no check of the name, so an unknown name ends in
\* the dict's KeyError (sensitivity of C15)
execute_tool_call_RaisesOnMiss(m, tool_name, course_name, lesson_number, results) ==
    IF ~ HasKey(tm_tools[m], tool_name)
    THEN [Called("execute_tool", m) EXCEPT
             !.tool_name = tool_name, !.raised = "KeyError"]
    ELSE LET tool == Get(tm_tools[m], tool_name)
             done == Execute(tool, course_name, lesson_number, results)
         IN [Called("execute_tool", m) EXCEPT
                !.tool_name = tool_name, !.tool = tool,
                !.course_name = course_name,
                !.lesson_number = lesson_number,
                !.results = results,
                !.produced = done.produced,
                !.text = done.text]

\* search_tools.py:148-159: what execute_tool returns, and what the tool produced
execute_tool_call(m, tool_name, course_name, lesson_number, results) ==
    IF ~ HasKey(tm_tools[m], tool_name)
    THEN [Called("execute_tool", m) EXCEPT
             !.tool_name = tool_name,
             !.text = "Tool '" \o tool_name \o "' not found"]
    ELSE LET tool == Get(tm_tools[m], tool_name)
             done == Execute(tool, course_name, lesson_number, results)
         IN [Called("execute_tool", m) EXCEPT
                !.tool_name = tool_name, !.tool = tool,
                !.course_name = course_name,
                !.lesson_number = lesson_number,
                !.results = results,
                !.produced = done.produced,
                !.text = done.text]

\* execute_tool_raising with a fault: the tool's last_sources are added to the
\* session log although execute raised, as if the accumulation sat in a
\* finally clause (sensitivity of C33)
execute_tool_raising_Accumulates(m, tool_name) ==
    /\ session_sources' =
           [session_sources EXCEPT
               ![m] = @ \o (IF HasKey(tm_tools[m], tool_name)
                                /\ HasLastSources(Get(tm_tools[m], tool_name))
                            THEN last_sources[Get(tm_tools[m], tool_name)]
                            ELSE <<>>)]
    /\ UNCHANGED << tm_tools, last_sources >>

\* search_tools.py:153: the effect of execute_tool when tool.execute raises;
\* lines 155-159 are not reached
execute_tool_raising(m, tool_name) ==
    UNCHANGED << tm_tools, session_sources, last_sources >>

\* get_last_sources with a fault: the scan keeps the last tool that has any
\* instead of returning at the first (sensitivity of C17)
get_last_sources_LastMatch(m) ==
    LET ts == Values(tm_tools[m])
        full == { i \in 1..Len(ts) : HasLastSources(ts[i]) /\ last_sources[ts[i]] # <<>> }
    IN IF full = {} THEN <<>>
       ELSE last_sources[ts[CHOOSE i \in full : \A j \in full : i >= j]]

\* search_tools.py:161-167: the last_sources of the first tool that has any
get_last_sources(m) ==
    LET ts == Values(tm_tools[m])
        full == { i \in 1..Len(ts) : HasLastSources(ts[i]) /\ last_sources[ts[i]] # <<>> }
    IN IF full = {} THEN <<>>
       ELSE last_sources[ts[CHOOSE i \in full : \A j \in full : i <= j]]

\* search_tools.py:169-171
get_all_sources_from_session(m) == session_sources[m]

\* reset_sources with a fault: the tools keep their last_sources
\* (sensitivity of C12)
reset_sources_KeepsLastSources(m) ==
    /\ session_sources' = [session_sources EXCEPT ![m] = <<>>]
    /\ UNCHANGED << tm_tools, last_sources >>

\* reset_sources with a fault: the session log is kept (sensitivity of C13)
reset_sources_KeepsLog(m) ==
    /\ last_sources' = [t \in SourceTools |->
                          IF \E i \in 1..Len(tm_tools[m]) : tm_tools[m][i][2] = t
                          THEN <<>> ELSE last_sources[t]]
    /\ UNCHANGED << tm_tools, session_sources >>

\* reset_sources with a fault: the last_sources of every tool object are
\* emptied, registered with this manager or not (sensitivity of C14)
reset_sources_EveryTool(m) ==
    /\ session_sources' = [session_sources EXCEPT ![m] = <<>>]
    /\ last_sources' = [t \in SourceTools |-> <<>>]
    /\ UNCHANGED tm_tools

\* search_tools.py:173-178: the effect of reset_sources
reset_sources(m) ==
    /\ session_sources' = [session_sources EXCEPT ![m] = <<>>]
    /\ last_sources' = [t \in SourceTools |->
                          IF \E i \in 1..Len(tm_tools[m]) : tm_tools[m][i][2] = t
                          THEN <<>> ELSE last_sources[t]]
    /\ UNCHANGED tm_tools

(* --------------- a client calling one ToolManager: SpecRegistry ---------- *)

\* the manager the client works with
tm == "tm_a"

\* the names the client asks for
ToolNames == {"search_course_content", "get_course_outline", "nonexistent_tool"}

\* what the store answers in this specification: to a search an error, no hit,
\* one hit or two hits; to an outline request no match, a catalog failure, no
\* metadata or the metadata of the one course
RegistryHits ==
    { << [course_title |-> Some("MCP"), lesson_number |-> Some(0)] >>,
      << [course_title |-> Some("MCP"), lesson_number |-> None],
         [course_title |-> Some("MCP"), lesson_number |-> Some(0)] >> }
RegistrySearchOutcomes ==
    { r \in SearchOutcomes(Metas, MaxHits) :
        is_empty(r) \/ r.metadata \in RegistryHits }
RegistryMetadatas ==
    { CourseMetadata(Some("MCP"), Some("https://example.com/mcp"), None, TRUE, <<>>) }

\* the keyword arguments of a call by name, with the store's answer to it
ToolInputs(tool_name) ==
    IF tool_name = "get_course_outline"
    THEN { << Some(IF r.resolved = None THEN "XYZ" ELSE "MCP"), None, r >> :
             r \in OutlineOutcomes(RegistryMetadatas) }
    ELSE { << None, None, r >> : r \in RegistrySearchOutcomes }

query_vars == << shared, serial, qpc, qcalls, qproduced, qread, cited >>

\* the histories of the client's calls
client_vars == << call, calls, registrations >>

InitRegistry ==
    /\ max_rounds = 0
    /\ tools = FALSE
    /\ tool_manager = FALSE
    /\ conversation_history = None
    /\ legacy = NoLegacy
    /\ messages = <<>>
    /\ round_num = 0
    /\ response = NoResponse
    /\ tool_results = <<>>
    /\ block_idx = 0
    /\ pc = "done"
    /\ caller = "none"
    /\ attempt = 0
    /\ slept = <<>>
    /\ e = <<>>
    /\ requests = <<>>
    /\ responses = <<>>
    /\ executed = <<>>
    /\ batches = 0
    /\ outcome = "returned"
    /\ ret = <<>>
    /\ exc = <<>>
    /\ tm_tools = [m \in Managers |-> <<>>]
    /\ session_sources = [m \in Managers |-> <<>>]
    /\ last_sources = [t \in SourceTools |-> <<>>]
    /\ call = NoCall
    /\ calls = 0
    /\ registrations = <<>>
    /\ shared = TRUE
    /\ serial = TRUE
    /\ qpc = [q \in Queries |-> "done"]
    /\ qcalls = [q \in Queries |-> 0]
    /\ qproduced = [q \in Queries |-> <<>>]
    /\ qread = [q \in Queries |-> <<>>]
    /\ cited = FALSE

RegisterTool ==
    /\ Len(registrations) < MaxRegistrations
    /\ \E tool \in ToolObjects \ {"search_tool_2"} :
          /\ register_tool(tm, tool)
          /\ call' = register_tool_call(tm, tool)
          /\ registrations' =
                IF Named(tool)
                THEN Append(registrations, << DefinitionName(tool)[1], tool >>)
                ELSE registrations
    /\ UNCHANGED << vars, calls, query_vars >>

GetToolDefinitions ==
    /\ call' = get_tool_definitions_call(tm)
    /\ UNCHANGED << vars, tm_tools, session_sources, last_sources, calls,
                    registrations, query_vars >>

ExecuteTool ==
    /\ calls < MaxCalls
    /\ \E tool_name \in ToolNames :
          \E in \in ToolInputs(tool_name) :
             /\ execute_tool(tm, tool_name, in[1], in[2], in[3])
             /\ call' = execute_tool_call(tm, tool_name, in[1], in[2], in[3])
             /\ calls' = IF HasKey(tm_tools[tm], tool_name) THEN calls + 1 ELSE calls
    /\ UNCHANGED << vars, registrations, query_vars >>

GetLastSources ==
    /\ call' = [Called("get_last_sources", tm) EXCEPT !.list = get_last_sources(tm)]
    /\ UNCHANGED << vars, tm_tools, session_sources, last_sources, calls,
                    registrations, query_vars >>

GetAllSourcesFromSession ==
    /\ call' = [Called("get_all_sources_from_session", tm) EXCEPT
                   !.list = get_all_sources_from_session(tm)]
    /\ UNCHANGED << vars, tm_tools, session_sources, last_sources, calls,
                    registrations, query_vars >>

ResetSources ==
    /\ reset_sources(tm)
    /\ call' = Called("reset_sources", tm)
    /\ calls' = 0
    /\ UNCHANGED << vars, registrations, query_vars >>

NextRegistry ==
    \/ RegisterTool
    \/ GetToolDefinitions
    \/ ExecuteTool
    \/ GetLastSources
    \/ GetAllSourcesFromSession
    \/ ResetSources

SpecRegistry == InitRegistry /\ [][NextRegistry]_registry_vars

(* ------------------------- claims on the registry ------------------------ *)

\* a step of execute_tool that found the tool and ran it
ExecutedStep == calls' = calls + 1

\* C11: when execute_tool on a registered tool returns, the session log is its
\* previous contents followed by exactly the citations that call produced; it is
\* unchanged when the call produced none (zero hits, store error, unresolved course)
C11_Step ==
    ExecutedStep =>
        session_sources'[call'.manager] =
            session_sources[call'.manager] \o call'.produced

C11_LogGrowsByProducedCitations == [][C11_Step]_registry_vars

\* the tools registered with the client's manager
Registered == { tm_tools[tm][i][2] : i \in 1..Len(tm_tools[tm]) }

\* no citation is tracked: the log is empty, every registered tool's last
\* citations are empty, and both getters return the empty list
Clean ==
    /\ session_sources[tm] = <<>>
    /\ \A t \in Registered : last_sources[t] = <<>>
    /\ get_all_sources_from_session(tm) = <<>>
    /\ get_last_sources(tm) = <<>>

\* steps of reset_sources and of register_tool
ResetStep == call'.op = "reset_sources"
RegisterStep == call'.op = "register_tool"

\* C13 as stated: reset_sources leaves no citation tracked, and none is tracked
\* until the next tool execution
C13_Original_Step ==
    /\ ResetStep => Clean'
    /\ (Clean /\ ~ ExecutedStep) => Clean'

C13_Original == [][C13_Original_Step]_registry_vars

\* C13: reset_sources, from any reachable state, leaves the log empty and every
\* registered tool's last citations empty, so both getters return the empty list;
\* this lasts until the next tool execution or the next registration (a tool
\* registered afterwards may bring last citations of its own)
C13_Step ==
    /\ ResetStep => Clean'
    /\ (Clean /\ ~ ExecutedStep /\ ~ RegisterStep) => Clean'

C13_ResetLeavesNoCitations == [][C13_Step]_registry_vars

\* reset_sources has just run on a registry that had executed tools: a tool it no
\* longer holds still has its citations
C13_Witness ==
    /\ call.op = "reset_sources"
    /\ Registered # {}
    /\ Clean
    /\ \E t \in SourceTools \ Registered : last_sources[t] # <<>>

\* a step of execute_tool with a name the manager does not hold
NotFoundStep ==
    /\ call'.op = "execute_tool"
    /\ ~ HasKey(tm_tools[tm], call'.tool_name)

\* C15: execute_tool with an unregistered name returns "Tool '<name>' not found",
\* does not raise, executes no tool, and leaves the session log and every tool's
\* last citations as they were
C15_Step ==
    NotFoundStep =>
        /\ call'.text = "Tool '" \o call'.tool_name \o "' not found"
        /\ call'.raised = ""
        /\ call'.tool = "none" /\ call'.produced = <<>>
        /\ ~ ExecutedStep
        /\ session_sources' = session_sources
        /\ last_sources' = last_sources

C15_UnknownNameIsReportedNotRaised == [][C15_Step]_registry_vars

\* an unknown name was asked of a manager that holds tools and citations
C15_Witness ==
    /\ call.op = "execute_tool"
    /\ call.text = "Tool 'nonexistent_tool' not found"
    /\ Registered # {}
    /\ session_sources[tm] # <<>>
    /\ \E t \in Registered : last_sources[t] # <<>>

\* C16: after any sequence of tool executions, get_last_sources returns the
\* citations of the tool that most recently produced non-empty citations; in
\* particular, right after an execution that produced citations it returns them
C16_Step ==
    (ExecutedStep /\ call'.produced # <<>>) =>
        get_last_sources(tm)' = call'.produced

C16_LastSourcesAreTheMostRecent == [][C16_Step]_registry_vars

\* the registered tools in the order of the dict, with their last citations
ToolAt(i) == tm_tools[tm][i][2]
HasCitations(i) == last_sources[ToolAt(i)] # <<>>

\* C17: get_last_sources returns the last citations of the first tool, in
\* registration order, whose last citations are non-empty, and the empty list
\* when no registered tool has any
C17_FirstToolWithCitationsWins ==
    call.op = "get_last_sources" =>
        IF \A i \in 1..Len(tm_tools[tm]) : ~ HasCitations(i)
        THEN call.list = <<>>
        ELSE \E i \in 1..Len(tm_tools[tm]) :
                /\ HasCitations(i)
                /\ \A j \in 1..(i - 1) : ~ HasCitations(j)
                /\ call.list = last_sources[ToolAt(i)]

\* get_last_sources was called while two registered tools held different citations
C17_Witness ==
    /\ call.op = "get_last_sources"
    /\ Len(tm_tools[tm]) = 2
    /\ HasCitations(1) /\ HasCitations(2)
    /\ last_sources[ToolAt(1)] # last_sources[ToolAt(2)]
    /\ call.list = last_sources[ToolAt(1)]

\* the names registered, each once, in the order of their first registration
RECURSIVE FirstOccurrences(_)
FirstOccurrences(names) ==
    IF names = <<>> THEN <<>>
    ELSE LET front == FirstOccurrences(SubSeq(names, 1, Len(names) - 1))
             last == names[Len(names)]
         IN IF \E i \in 1..Len(front) : front[i] = last
            THEN front
            ELSE Append(front, last)

RegisteredNames == [i \in 1..Len(registrations) |-> registrations[i][1]]

\* the tool most recently registered under a name
LatestTool(name) ==
    LET is == { i \in 1..Len(registrations) : registrations[i][1] = name }
    IN registrations[CHOOSE i \in is : \A j \in is : j <= i][2]

\* C18: after any sequence of successful register_tool calls, get_tool_definitions
\* returns one definition per distinct registered name, ordered by the first
\* registration of each name, and each name resolves to the tool most recently
\* registered under it
C18_OneDefinitionPerNameLatestToolWins ==
    /\ Keys(tm_tools[tm]) = FirstOccurrences(RegisteredNames)
    /\ \A i \in 1..Len(tm_tools[tm]) :
          tm_tools[tm][i][2] = LatestTool(tm_tools[tm][i][1])
    /\ call.op = "get_tool_definitions" =>
          call.list = FirstOccurrences(RegisteredNames)

\* the definitions were asked for after the outline tool, the search tool and a
\* second outline tool had been registered
C18_Witness ==
    /\ call.op = "get_tool_definitions"
    /\ registrations = << << "get_course_outline", "outline_tool" >>,
                          << "search_course_content", "search_tool" >>,
                          << "get_course_outline", "outline_tool_2" >> >>
    /\ call.list = << "get_course_outline", "search_course_content" >>
    /\ Get(tm_tools[tm], "get_course_outline") = "outline_tool_2"

\* C19: register_tool with a tool whose definition has no name (missing or empty)
\* raises a configuration error and leaves the registered tools unchanged; with a
\* named tool it stores the tool under that name
C19_Step ==
    RegisterStep =>
        IF call'.tool \in NamelessTools
        THEN /\ call'.raised = "ValueError: Tool must have a 'name' in its definition"
             /\ tm_tools' = tm_tools
        ELSE /\ call'.raised = ""
             /\ call'.tool_name = (IF call'.tool \in SearchTools
                                   THEN "search_course_content"
                                   ELSE "get_course_outline")
             /\ HasKey(tm_tools'[tm], call'.tool_name)
             /\ Get(tm_tools'[tm], call'.tool_name) = call'.tool

C19_NamelessToolIsRefused == [][C19_Step]_registry_vars

\* a tool with an empty name was refused by a manager that holds both tools
C19_Witness ==
    /\ call.op = "register_tool"
    /\ call.tool = "tool_with_empty_name"
    /\ call.raised # ""
    /\ Keys(tm_tools[tm]) = << "search_course_content", "get_course_outline" >>

(* ------- queries of a coordinator through the registry: SpecQueries ------ *)

\* the manager a query goes through: the one manager, or the query's own
ManagerOf(q) == IF shared \/ q = "q1" THEN "tm_a" ELSE "tm_b"

\* the coordinator's two ways of reading the citations of a query
Getters == {"get_last_sources", "get_all_sources_from_session"}

\* each manager is set up with a search tool and an outline tool of its own
InitQueries ==
    /\ max_rounds = 0
    /\ tools = FALSE
    /\ tool_manager = FALSE
    /\ conversation_history = None
    /\ legacy = NoLegacy
    /\ messages = <<>>
    /\ round_num = 0
    /\ response = NoResponse
    /\ tool_results = <<>>
    /\ block_idx = 0
    /\ pc = "done"
    /\ caller = "none"
    /\ attempt = 0
    /\ slept = <<>>
    /\ e = <<>>
    /\ requests = <<>>
    /\ responses = <<>>
    /\ executed = <<>>
    /\ batches = 0
    /\ outcome = "returned"
    /\ ret = <<>>
    /\ exc = <<>>
    /\ tm_tools =
         [m \in Managers |->
            IF m = "tm_a"
            THEN << << "search_course_content", "search_tool" >>,
                    << "get_course_outline", "outline_tool" >> >>
            ELSE << << "search_course_content", "search_tool_2" >>,
                    << "get_course_outline", "outline_tool_2" >> >>]
    /\ session_sources = [m \in Managers |-> <<>>]
    /\ last_sources = [t \in SourceTools |-> <<>>]
    /\ call = NoCall
    /\ calls = 0
    /\ registrations = << << "search_course_content", "search_tool" >>,
                           << "get_course_outline", "outline_tool" >> >>
    /\ shared \in BOOLEAN
    /\ serial \in BOOLEAN
    /\ qpc = [q \in Queries |-> "done"]
    /\ qcalls = [q \in Queries |-> 0]
    /\ qproduced = [q \in Queries |-> <<>>]
    /\ qread = [q \in Queries |-> <<>>]
    /\ cited = FALSE

\* what the queries ask the tools, with the store's answer: a search finds
\* nothing or one hit, an outline request resolves or not
QueryInputs(tool_name) ==
    { in \in ToolInputs(tool_name) :
        IF tool_name = "get_course_outline"
        THEN in[3].resolved = None \/ in[3].catalog = "found"
        ELSE in[3].error = None /\ Len(in[3].documents) <= 1 }

\* a query arrives; one at a time when the queries are serial
QueryStarts ==
    /\ \E q \in Queries :
          /\ qpc[q] = "done"
          /\ serial => \A o \in Queries : qpc[o] = "done"
          /\ qpc' = [qpc EXCEPT ![q] = "exec"]
    /\ UNCHANGED << vars, tm_tools, session_sources, last_sources, client_vars,
                    shared, serial, qcalls, qproduced, qread, cited >>

\* the orchestrator, run for the query, has a tool executed
QueryExecutesTool ==
    /\ \E q \in Queries :
          /\ qpc[q] = "exec"
          /\ qcalls[q] < MaxCalls
          /\ \E tool_name \in ToolNames \ {"nonexistent_tool"} :
                \E in \in QueryInputs(tool_name) :
                   /\ execute_tool(ManagerOf(q), tool_name, in[1], in[2], in[3])
                   /\ qproduced' =
                        [qproduced EXCEPT ![q] =
                           @ \o execute_tool_call(ManagerOf(q), tool_name,
                                                  in[1], in[2], in[3]).produced]
          /\ qcalls' = [qcalls EXCEPT ![q] = @ + 1]
    /\ UNCHANGED << vars, client_vars, shared, serial, qpc, qread, cited >>

\* the orchestrator returns the answer of the query, and the coordinator reads
\* the citations
QueryReadsSources ==
    /\ \E q \in Queries :
          /\ qpc[q] = "exec"
          /\ \E getter \in Getters :
                qread' = [qread EXCEPT ![q] =
                            IF getter = "get_last_sources"
                            THEN get_last_sources(ManagerOf(q))
                            ELSE get_all_sources_from_session(ManagerOf(q))]
          /\ qpc' = [qpc EXCEPT ![q] = "reset"]
    /\ UNCHANGED << vars, tm_tools, session_sources, last_sources, client_vars,
                    shared, serial, qcalls, qproduced, cited >>

\* the coordinator resets the citations and returns: the query is over
QueryResetsSources ==
    /\ \E q \in Queries :
          /\ qpc[q] = "reset"
          /\ reset_sources(ManagerOf(q))
          /\ qpc' = [qpc EXCEPT ![q] = "done"]
          /\ qcalls' = [qcalls EXCEPT ![q] = 0]
          /\ qproduced' = [qproduced EXCEPT ![q] = <<>>]
          /\ qread' = [qread EXCEPT ![q] = <<>>]
          /\ cited' = (cited \/ qproduced[q] # <<>>)
    /\ UNCHANGED << vars, client_vars, shared, serial >>

NextQueries ==
    \/ QueryStarts
    \/ QueryExecutesTool
    \/ QueryReadsSources
    \/ QueryResetsSources

SpecQueries == InitQueries /\ [][NextQueries]_registry_vars

(* -------------------------- claims on the queries ------------------------ *)

\* the citations in a sequence
Citations(seq) == { seq[i] : i \in 1..Len(seq) }

\* the list read for query q holds a citation that no tool execution of q produced
Leaked(q) == ~ (Citations(qread[q]) \subseteq Citations(qproduced[q]))

Lost(q) ==
    /\ qproduced[q] # <<>>
    /\ Citations(qproduced[q]) \cap Citations(qread[q]) = {}

Texts == { TextBlock(k, i).text : k \in 1..(MaxRounds + 1), i \in 1..MaxBlocks }

\* the last response received
LastResponse == responses[Len(responses)]

\* C27: when generate_response returns, what it returns is a text: the text of
\* the response to the forced synthesis request when one was issued, and the
\* text of the last in-loop response otherwise, whatever that response's stop
\* reason and layout and whatever the tools did
C27_ReturnsTheTextOfTheLastTurn ==
    outcome = "returned" =>
        /\ ret \in Texts
        /\ responses # <<>>
        /\ Len(responses) = Len(requests)
        /\ LastResponse.content # <<>>
        /\ LastResponse.content[1].type = "text"
        /\ ret = LastResponse.content[1].text
        /\ IF FinalRequests # {}
           THEN requests[Len(requests)].site = "final"
           ELSE /\ response = LastResponse
                /\ messages[Len(messages)] = [role |-> "assistant", content |-> response.content]

\* the call returned the leading text of a response that stopped for tool use:
\* its tool call failed with a transient error and no synthesis followed
C27_Witness ==
    /\ outcome = "returned"
    /\ FinalRequests = {}
    /\ response.stop_reason = "tool_use"
    /\ Len(responses) = 2
    /\ executed # <<>>
    /\ ret = response.content[1].text

(* ------------------------------ C28 ------------------------------------- *)

\* generate_response is entered with a tools list (which decides the content
\* of the requests and nothing of the control flow), with or without a manager
InitFair ==
    /\ max_rounds \in 0..MaxRounds
    /\ tools = TRUE
    /\ tool_manager \in BOOLEAN
    /\ conversation_history = None
    /\ legacy = NoLegacy
    /\ messages = << [role |-> "user", content |-> query] >>
    /\ round_num = 0
    /\ response = NoResponse
    /\ tool_results = <<>>
    /\ block_idx = 0
    /\ pc = "loop"
    /\ caller = "none"
    /\ attempt = 0
    /\ slept = <<>>
    /\ e = <<>>
    /\ requests = <<>>
    /\ responses = <<>>
    /\ executed = <<>>
    /\ batches = 0
    /\ outcome = "running"
    /\ ret = <<>>
    /\ exc = <<>>
    /\ tm_tools = [m \in Managers |-> <<>>]
    /\ session_sources = [m \in Managers |-> <<>>]
    /\ last_sources = [t \in SourceTools |-> <<>>]
    /\ call = NoCall
    /\ calls = 0
    /\ registrations = <<>>
    /\ shared = TRUE
    /\ serial = TRUE
    /\ qpc = [q \in Queries |-> "done"]
    /\ qcalls = [q \in Queries |-> 0]
    /\ qproduced = [q \in Queries |-> <<>>]
    /\ qread = [q \in Queries |-> <<>>]
    /\ cited = FALSE

\* every request attempt and every tool call returns or raises, and the
\* interpreter goes on: no step that can be taken is put off for ever
FairSpec == InitFair /\ [][Next]_vars /\ WF_vars(Next)

\* what a call has used up at most: max_rounds + 1 requests of max_retries + 1
\* attempts each, and the tool_use blocks of max_rounds responses
WithinBudget ==
    /\ Len(requests) <= max_rounds + 1
    /\ attempt <= max_retries
    /\ Len(slept) <= max_retries
    /\ batches <= max_rounds
    /\ Len(executed) <= batches * MaxBlocks

\* C28: every call of generate_response ends, by returning or by raising, after
\* at most max_rounds + 1 model requests of at most max_retries + 1 attempts and
\* at most one tool execution per tool_use block of max_rounds responses, also
\* when every response asks for tools
C28_Terminates == [] WithinBudget /\ <>(pc = "done")

\* a call ended although every in-loop response asked for tools, after the
\* largest number of rounds
C28_Witness ==
    /\ pc = "done"
    /\ outcome = "returned"
    /\ max_rounds = MaxRounds
    /\ tool_manager
    /\ Len(requests) = max_rounds + 1
    /\ \A k \in LoopRequests : responses[k].stop_reason = "tool_use"
    /\ Len(executed) = max_rounds * MaxBlocks

(* ------------------------------ C29 ------------------------------------- *)

\* a step in which a tool invocation raises a transient-classified error
TransientRaiseStep ==
    /\ Len(executed') = Len(executed) + 1
    /\ executed'[Len(executed')].raised
    /\ HasToolTransientSignature(executed'[Len(executed')].msg)

\* a tool invocation of the call has raised a transient-classified error
Aborted ==
    \E j \in DOMAIN executed :
        executed[j].raised /\ HasToolTransientSignature(executed[j].msg)

C29_Step ==
    /\ TransientRaiseStep =>
          /\ messages' = messages
          /\ tool_results' = <<>>
          /\ requests' = requests
          /\ pc' = "after"
    /\ Aborted =>
          /\ executed' = executed
          /\ messages' = messages
          /\ tool_results' = <<>>
          /\ LoopRequests' = LoopRequests
          /\ messages[Len(messages)] = [role |-> "assistant", content |-> response.content]

\* C29: when a tool invocation raises a transient-classified error, no later
\* invocation of that round is executed, the results the round had obtained are
\* dropped and no tool-result turn is appended for it, and no in-loop model
\* request follows
C29_TransientToolErrorAbortsTheRound == [][C29_Step]_vars

\* the call is over: the first of two invocations had returned, the second
\* raised a transient error, and the message list ends with the model's turn
C29_Witness ==
    /\ pc = "done"
    /\ Len(response.content) = 2
    /\ Len(executed) = 2
    /\ ~ executed[1].raised
    /\ executed[2].raised /\ HasToolTransientSignature(executed[2].msg)
    /\ executed[1].batch = executed[2].batch
    /\ Len(messages) = 2

(* ======================================================================== *)
(* generate_response run against a ToolManager: SpecPipeline                 *)
(* ======================================================================== *)

\* the manager's tools, as the application registers them
PipelineTools ==
    << << "search_course_content", "search_tool" >>,
       << "get_course_outline", "outline_tool" >> >>

\* the input of a tool_use block and the store's answer to the search: an
\* error, no hit or one hit for a search without filters, and an error that
\* comes with a document for a search with both filters
PipelineInputs ==
    { << None, None, r >> :
        r \in { x \in SearchOutcomes(Metas, 1) :
                  is_empty(x) \/ x.metadata[1] = [course_title |-> Some("MCP"),
                                                  lesson_number |-> Some(0)] } }
    \cup { << Some("MCP"), Some(1), r >> : r \in { x \in ErrorOutcomes : ~ is_empty(x) } }

\* the round budgets of the calls: the default of max_rounds, and one round
PipelineRounds == {1, 2}

\* what the service answers to in-loop request k in this specification: a text
\* that ends the turn, or one or two tool_use blocks with or without a leading
\* text block
PipelineResponses(k) ==
    { [stop_reason |-> "end_turn", content |-> << TextBlock(k, 1) >>],
      [stop_reason |-> "tool_use", content |-> << ToolUseBlock(k, 1) >>],
      [stop_reason |-> "tool_use", content |-> << TextBlock(k, 1), ToolUseBlock(k, 2) >>],
      [stop_reason |-> "tool_use", content |-> << ToolUseBlock(k, 1), ToolUseBlock(k, 2) >>],
      [stop_reason |-> "tool_use",
       content |-> << TextBlock(k, 1), ToolUseBlock(k, 2), ToolUseBlock(k, 3) >>] }

\* what a tool raises with when it does not return: one message the tool layer
\* classifies as transient and one it does not
PipelineToolErrMsgs == { <<"network", "unreachable">>, <<"connection", "reset">> }

\* generate_response(query, tools=tool_manager.get_tool_definitions(),
\* tool_manager=tool_manager) with a manager whose sources are reset
InitPipeline ==
    /\ max_rounds \in PipelineRounds
    /\ tools = TRUE
    /\ tool_manager = TRUE
    /\ conversation_history = None
    /\ legacy = NoLegacy
    /\ messages = << [role |-> "user", content |-> query] >>
    /\ round_num = 0
    /\ response = NoResponse
    /\ tool_results = <<>>
    /\ block_idx = 0
    /\ pc = "loop"
    /\ caller = "none"
    /\ attempt = 0
    /\ slept = <<>>
    /\ e = <<>>
    /\ requests = <<>>
    /\ responses = <<>>
    /\ executed = <<>>
    /\ batches = 0
    /\ outcome = "running"
    /\ ret = <<>>
    /\ exc = <<>>
    /\ tm_tools = [m \in Managers |-> IF m = tm THEN PipelineTools ELSE <<>>]
    /\ session_sources = [m \in Managers |-> <<>>]
    /\ last_sources = [t \in SourceTools |-> <<>>]
    /\ call = NoCall
    /\ calls = 0
    /\ registrations = PipelineTools
    /\ shared = TRUE
    /\ serial = TRUE
    /\ qpc = [q \in Queries |-> "done"]
    /\ qcalls = [q \in Queries |-> 0]
    /\ qproduced = [q \in Queries |-> <<>>]
    /\ qread = [q \in Queries |-> <<>>]
    /\ cited = FALSE

\* ai_generator.py:95-112: the in-loop request is answered (the service fails no
\* request here); the response is appended and examined
PipelineRoundResponse ==
    /\ pc = "api"
    /\ caller = "loop"
    /\ \E r \in PipelineResponses(Len(requests)) :
          /\ response' = r
          /\ responses' = Append(responses, r)
          /\ messages' = Append(messages, AssistantTurn(r))
          /\ IF WantsTools(r, tool_manager)
             THEN /\ pc' = "exec"
                  /\ block_idx' = 1
                  /\ batches' = batches + 1
             ELSE /\ pc' = "after"
                  /\ UNCHANGED << block_idx, batches >>
    /\ tool_results' = <<>>
    /\ attempt' = 0
    /\ slept' = <<>>
    /\ e' = <<>>
    /\ UNCHANGED << registry_vars, args, legacy, round_num, caller, requests, executed, outcome, ret, exc >>

\* ai_generator.py:170-180 with search_tools.py:148-159: execute_tool runs the
\* named tool, adds its last_sources to the session log and returns its text,
\* which becomes the content of a tool-result entry
ExecuteToolReturns ==
    /\ pc = "exec"
    /\ block_idx <= Len(response.content)
    /\ response.content[block_idx].type = "tool_use"
    /\ \E in \in PipelineInputs :
          LET block == response.content[block_idx]
              done == execute_tool_call(tm, block.name, in[1], in[2], in[3])
          IN  /\ execute_tool(tm, block.name, in[1], in[2], in[3])
              /\ call' = done
              /\ tool_results' = Append(tool_results, ToolResultEntry(block, << done.text >>))
              /\ executed' = Append(executed,
                     [id |-> block.id, batch |-> batches, raised |-> FALSE, msg |-> <<>>,
                      call |-> done])
    /\ block_idx' = block_idx + 1
    /\ calls' = calls + 1
    /\ UNCHANGED << args, legacy, messages, round_num, response, pc, caller, attempt, slept, e,
                    requests, responses, batches, outcome, ret, exc,
                    registrations, query_vars >>

\* ai_generator.py:182-194 with search_tools.py:153: the tool's execute raises,
\* execute_tool lets the error through and adds nothing to the session log
ExecuteToolRaises ==
    /\ pc = "exec"
    /\ block_idx <= Len(response.content)
    /\ response.content[block_idx].type = "tool_use"
    /\ \E m \in PipelineToolErrMsgs :
          LET block == response.content[block_idx]
              done == [Called("execute_tool", tm) EXCEPT
                          !.tool_name = block.name, !.raised = "Exception"]
          IN  /\ call' = done
              /\ executed' = Append(executed,
                     [id |-> block.id, batch |-> batches, raised |-> TRUE, msg |-> m,
                      call |-> done])
              /\ execute_tool_raising(tm, block.name)
              /\ IF IsTransientToolError(m)
                 THEN /\ tool_results' = <<>>
                      /\ pc' = "after"
                      /\ UNCHANGED block_idx
                 ELSE /\ tool_results' = RecordFailure(tool_results, block, m)
                      /\ block_idx' = block_idx + 1
                      /\ UNCHANGED pc
    /\ UNCHANGED << args, legacy, messages, round_num, response, caller, attempt, slept, e,
                    requests, responses, batches, outcome, ret, exc,
                    calls, registrations, query_vars >>

NextPipeline ==
    \/ StartRound
    \/ LoopExhausted
    \/ PipelineRoundResponse
    \/ SynthesisResponse
    \/ SkipBlock
    \/ ExecuteToolReturns
    \/ ExecuteToolRaises
    \/ EndBatch
    \/ StartSynthesis
    \/ ReturnLast

SpecPipeline == InitPipeline /\ [][NextPipeline]_<< vars, registry_vars >>

pipeline_vars == << vars, registry_vars >>

(* ------------------------------ C21 ------------------------------------- *)

\* the tool executions so far to which the store reported an error
ErrorExecutions ==
    { j \in DOMAIN executed :
        ~ executed[j].raised /\ executed[j].call.results.error # None }

\* the error the store reported to execution j
ReportedError(j) == executed[j].call.results.error[1]

\* a step in which a search is executed and the store reports an error
ErrorReportedStep ==
    /\ Len(executed') = Len(executed) + 1
    /\ Len(executed') \in ErrorExecutions'

C21_Step ==
    ErrorReportedStep =>
        LET done == executed'[Len(executed')]
            error == done.call.results.error[1]
        IN
        /\ done.call = call'
        /\ call'.text = error
        /\ tool_results' =
              Append(tool_results,
                     [type |-> "tool_result", tool_use_id |-> done.id,
                      content |-> << error >>])
        /\ outcome' = "running"
        /\ pc' = "exec"

\* in every request sent to the model, the tool-result entry of an execution
\* to which the store reported an error holds that error and nothing else
SentErrorsVerbatim ==
    \A k \in DOMAIN requests : \A i \in DOMAIN requests[k].messages :
        LET turn == requests[k].messages[i] IN
        (i > 1 /\ turn.role = "user") =>
            \A n \in DOMAIN turn.content : \A j \in ErrorExecutions :
                turn.content[n].tool_use_id = executed[j].id =>
                    turn.content[n].content = << ReportedError(j) >>

SentExecutions ==
    { j \in DOMAIN executed :
        \E k \in DOMAIN requests : \E i \in DOMAIN requests[k].messages :
            LET turn == requests[k].messages[i] IN
            /\ i > 1 /\ turn.role = "user"
            /\ \E n \in DOMAIN turn.content : turn.content[n].tool_use_id = executed[j].id }

\* C30: when a call of generate_response is over, every citation of the
\* manager's session log was produced by a tool execution whose result was sent
\* to the model in a tool-result turn; stated of the calls that return (a call
\* that ends by raising leaves the log the same way)
C30_LogHoldsOnlyCitationsOfSentResults ==
    (pc = "done" /\ outcome = "returned") =>
        \A n \in DOMAIN session_sources[tm] :
            \E j \in SentExecutions :
                session_sources[tm][n] \in Citations(executed[j].call.produced)

(* ======================================================================== *)
(* ai_generator.py: what a model request carries                            *)
(* ======================================================================== *)

(* ------------------------------ C31 ------------------------------------- *)

\* the message sequence of request k
Carried(k) == requests[k].messages

\* C31: the k-th model request of a call, the forced synthesis request
\* included, carries exactly 2k-1 messages: the user query first and then every
\* turn appended so far; the sequence of request k > 1 is that of request k-1
\* followed by the assistant turn of response k-1 and one tool-result turn
C31_RequestCarriesAllTurnsSoFar ==
    \A k \in DOMAIN requests :
        /\ Len(Carried(k)) = 2 * k - 1
        /\ Carried(k)[1] = [role |-> "user", content |-> query]
        /\ Carried(k) = SubSeq(messages, 1, 2 * k - 1)
        /\ k > 1 =>
              /\ SubSeq(Carried(k), 1, 2 * k - 3) = Carried(k - 1)
              /\ Carried(k)[2 * k - 2] = AssistantTurn(responses[k - 1])
              /\ Carried(k)[2 * k - 1].role = "user"
              /\ IsToolResultContent(Carried(k)[2 * k - 1].content)

\* a call with two tool rounds returned the text of its third request, the
\* forced synthesis request, which carried five messages
C31_Witness ==
    /\ pc = "done"
    /\ outcome = "returned"
    /\ Len(requests) = 3
    /\ requests[3].site = "final"
    /\ Len(Carried(3)) = 5

(* ======================================================================== *)
(* ai_generator.py: one error message at both layers, SpecClassify          *)
(* ======================================================================== *)

\* the words of the error messages
Words == UNION { { m[i] : i \in DOMAIN m } : m \in ErrMsgs \cup ToolErrMsgs }

\* str(e): every message of 1..MaxWords of these words
ClassifiedMsgs == UNION { [1..n -> Words] : n \in 1..MaxWords }

\* an error e is about to be raised by attempt `attempt` of a model request
\* and by the one tool invocation of a round
InitClassify ==
    /\ max_rounds = 1
    /\ tools = TRUE
    /\ tool_manager = TRUE
    /\ conversation_history = None
    /\ legacy = NoLegacy
    /\ messages = << [role |-> "user", content |-> query],
                     AssistantTurn([stop_reason |-> "tool_use",
                                    content |-> << ToolUseBlock(1, 1) >>]) >>
    /\ round_num = 0
    /\ response = [stop_reason |-> "tool_use", content |-> << ToolUseBlock(1, 1) >>]
    /\ tool_results = <<>>
    /\ block_idx = 1
    /\ pc = "exec"
    /\ caller = "none"
    /\ attempt \in 0..max_retries
    /\ slept = <<>>
    /\ e \in ClassifiedMsgs
    /\ requests = <<>>
    /\ responses = <<>>
    /\ executed = <<>>
    /\ batches = 1
    /\ outcome = "running"
    /\ ret = <<>>
    /\ exc = <<>>
    /\ tm_tools = [m \in Managers |-> <<>>]
    /\ session_sources = [m \in Managers |-> <<>>]
    /\ last_sources = [t \in SourceTools |-> <<>>]
    /\ call = NoCall
    /\ calls = 0
    /\ registrations = <<>>
    /\ shared = TRUE
    /\ serial = TRUE
    /\ qpc = [q \in Queries |-> "done"]
    /\ qcalls = [q \in Queries |-> 0]
    /\ qproduced = [q \in Queries |-> <<>>]
    /\ qread = [q \in Queries |-> <<>>]
    /\ cited = FALSE

\* ai_generator.py:143-153: _api_call_with_retry catches e
RetryLayerCatches ==
    /\ caller = "none"
    /\ caller' = "loop"
    /\ IF IsLastAttempt(attempt)
       THEN /\ outcome' = "raised"
            /\ exc' = e
            /\ UNCHANGED << attempt, slept >>
       ELSE IF IsTransientApiError(e)
            THEN /\ slept' = Append(slept, BackoffDelay(attempt))
                 /\ attempt' = attempt + 1
                 /\ UNCHANGED << outcome, exc >>
            ELSE /\ outcome' = "raised"
                 /\ exc' = e
                 /\ UNCHANGED << attempt, slept >>
    /\ UNCHANGED << registry_vars, args, legacy, messages, round_num, response, tool_results,
                    block_idx, pc, e, requests, responses, executed, batches, ret >>

\* ai_generator.py:182-194: _execute_tools_for_round catches e, raised by
\* execute_tool for the block at hand
ToolLayerCatches ==
    /\ executed = <<>>
    /\ LET block == response.content[block_idx]
       IN  /\ executed' = Append(executed,
                  [id |-> block.id, batch |-> batches, raised |-> TRUE, msg |-> e])
           /\ IF IsTransientToolError(e)
              THEN /\ tool_results' = <<>>
                   /\ pc' = "after"
                   /\ UNCHANGED block_idx
              ELSE /\ tool_results' = RecordFailure(tool_results, block, e)
                   /\ block_idx' = block_idx + 1
                   /\ UNCHANGED pc
    /\ UNCHANGED << registry_vars, args, legacy, messages, round_num, response, caller, attempt,
                    slept, e, requests, responses, batches, outcome, ret, exc >>

NextClassify ==
    \/ RetryLayerCatches
    \/ ToolLayerCatches

SpecClassify == InitClassify /\ [][NextClassify]_vars

(* ------------------------------ C32 ------------------------------------- *)

\* both layers have caught the message
BothLayersCaught == caller = "loop" /\ executed # <<>>

\* the request layer slept and goes on to a further attempt
Retried == slept # <<>>

\* the failing attempt was not the last one the request layer makes
NotTheLastAttempt == Retried \/ attempt < max_retries

\* the tool layer returned None: no entry, the round is aborted
RoundAborted == pc = "after" /\ tool_results = <<>>

\* the claim as stated: a message is retried by the request layer exactly when
\* it aborts the round at the tool layer
C32_Original ==
    (BothLayersCaught /\ NotTheLastAttempt) => (Retried <=> RoundAborted)

\* C32: the two layers do not classify alike. A message aborts the round at the
\* tool layer exactly when it holds 'rate limit' or 'network' (lowered); short
\* of the last attempt it is retried by the request layer exactly when it holds
\* one of these or 'connection'. So every round-aborting message is also one
\* the request layer retries, and a message that holds 'connection' alone is
\* retried there while at the tool layer it becomes a 'Tool execution failed'
\* entry and the round goes on
C32_ToolLayerClassifiesFewerErrors ==
    BothLayersCaught =>
        /\ RoundAborted <=> HasToolTransientSignature(e)
        /\ NotTheLastAttempt =>
              /\ Retried <=> HasApiTransientSignature(e)
              /\ RoundAborted => Retried
        /\ ~ RoundAborted =>
              tool_results = << [type |-> "tool_result", tool_use_id |-> executed[1].id,
                                 content |-> <<"Tool execution failed: ">> \o e] >>

\* 'connection reset' was retried by the request layer and did not abort the
\* round at the tool layer
C32_Witness ==
    /\ BothLayersCaught
    /\ e = <<"connection", "reset">>
    /\ Retried
    /\ ~ RoundAborted

(* ======================================================================== *)
(* search_tools.py and ai_generator.py: a tool that raises                  *)
(* ======================================================================== *)

(* ------------------------------ C33 ------------------------------------- *)

\* a step in which execute_tool is called and the tool's execute raises
ExecuteRaisesStep ==
    /\ Len(executed') = Len(executed) + 1
    /\ executed'[Len(executed')].raised

C33_Step ==
    ExecuteRaisesStep =>
        LET failed == executed'[Len(executed')] IN
        /\ failed.call.raised = "Exception"
        /\ failed.call.text = ""
        /\ failed.msg \in PipelineToolErrMsgs
        /\ \/ tool_results' = <<>> /\ pc' = "after"
           \/ tool_results' =
                 Append(tool_results,
                        [type |-> "tool_result", tool_use_id |-> failed.id,
                         content |-> <<"Tool execution failed: ">> \o failed.msg])
        /\ session_sources' = session_sources
        /\ last_sources' = last_sources
        /\ tm_tools' = tm_tools

\* C33: when the tool's execute raises inside execute_tool, execute_tool returns
\* nothing: the error reaches its caller, which aborts the round or records
\* the failure with the error's message, and the session log, like each
\* tool's last_sources, is as it was before the call
C33_RaisingExecutionLeavesTheLogAlone == [][C33_Step]_pipeline_vars

\* a call returned in which the first execution logged a citation and the
\* second raised 'connection reset': the log holds the first one's citation only
C33_Witness ==
    /\ pc = "done"
    /\ outcome = "returned"
    /\ Len(executed) = 2
    /\ executed[1].call.produced # <<>>
    /\ executed[2].raised
    /\ executed[2].msg = <<"connection", "reset">>
    /\ last_sources["search_tool"] # <<>>
    /\ session_sources[tm] = executed[1].call.produced

(* ======================================================================== *)
(* ai_generator.py: a call with no round at all                             *)
(* ======================================================================== *)

(* ------------------------------ C34 ------------------------------------- *)

\* the one request a call without rounds makes
BareRequest ==
    [site |-> "final", messages |-> << [role |-> "user", content |-> query] >>,
     system |-> SystemContent(conversation_history),
     tools |-> FALSE, tool_choice |-> "absent"]

\* C34: a call with max_rounds = 0 executes no tool; it issues one model
\* request, which carries the user query alone and no tool definitions,
\* whatever tools and tool manager were passed; when the call returns it
\* returns the text of that request's response
C34_ZeroRoundsIsOneBareRequest ==
    max_rounds = 0 =>
        /\ executed = <<>>
        /\ batches = 0
        /\ Len(requests) <= 1
        /\ \A k \in DOMAIN requests : requests[k] = BareRequest
        /\ pc = "done" => Len(requests) = 1
        /\ (pc = "done" /\ outcome = "returned") =>
              /\ Len(responses) = 1
              /\ responses[1].content[1].type = "text"
              /\ ret = responses[1].content[1].text

\* a call with max_rounds = 0 that was passed tools and a tool manager has
\* returned
C34_Witness ==
    /\ max_rounds = 0
    /\ tools
    /\ tool_manager
    /\ pc = "done"
    /\ outcome = "returned"
    /\ requests = << BareRequest >>

(* ======================================================================== *)
(* ai_generator.py: calls with a conversation history, SpecHistory         *)
(* ======================================================================== *)

\* the conversation_history argument: absent, empty, or the formatted exchange
\* of an earlier query
Histories == { None, Some(""), Some("User: Hi\nAssistant: Hello") }

\* generate_response(query, conversation_history, tools, tool_manager,
\* max_rounds) has been entered
InitHistory ==
    /\ max_rounds \in 0..MaxRounds
    /\ tools = TRUE
    /\ tool_manager \in BOOLEAN
    /\ conversation_history \in Histories
    /\ legacy = NoLegacy
    /\ messages = << [role |-> "user", content |-> query] >>
    /\ round_num = 0
    /\ response = NoResponse
    /\ tool_results = <<>>
    /\ block_idx = 0
    /\ pc = "loop"
    /\ caller = "none"
    /\ attempt = 0
    /\ slept = <<>>
    /\ e = <<>>
    /\ requests = <<>>
    /\ responses = <<>>
    /\ executed = <<>>
    /\ batches = 0
    /\ outcome = "running"
    /\ ret = <<>>
    /\ exc = <<>>
    /\ tm_tools = [m \in Managers |-> <<>>]
    /\ session_sources = [m \in Managers |-> <<>>]
    /\ last_sources = [t \in SourceTools |-> <<>>]
    /\ call = NoCall
    /\ calls = 0
    /\ registrations = <<>>
    /\ shared = TRUE
    /\ serial = TRUE
    /\ qpc = [q \in Queries |-> "done"]
    /\ qcalls = [q \in Queries |-> 0]
    /\ qproduced = [q \in Queries |-> <<>>]
    /\ qread = [q \in Queries |-> <<>>]
    /\ cited = FALSE

SpecHistory == InitHistory /\ [][Next]_vars

(* ------------------------------ C35 ------------------------------------- *)

\* the system instruction the claim prescribes for the call's history
PrescribedSystem ==
    IF conversation_history = None \/ conversation_history = Some("")
    THEN SYSTEM_PROMPT
    ELSE SYSTEM_PROMPT \o "\n\nPrevious conversation:\n" \o conversation_history[1]

\* C35: the system instruction of a request is the fixed prompt alone when no
\* history or an empty one was given, and otherwise the fixed prompt followed
\* by a 'Previous conversation:' block holding the history; every request of
\* the call, the forced synthesis request included, carries the same one
C35_SameSystemInstructionOnEveryRequest ==
    /\ \A k \in DOMAIN requests : requests[k].system = PrescribedSystem
    /\ \A k, l \in DOMAIN requests : requests[k].system = requests[l].system

\* a call with a history made two in-loop requests and the synthesis request,
\* each with the history block in its system instruction
C35_Witness ==
    /\ conversation_history = Some("User: Hi\nAssistant: Hello")
    /\ Len(requests) = 3
    /\ requests[1].site = "loop"
    /\ requests[3].site = "final"
    /\ requests[3].system =
          SYSTEM_PROMPT \o "\n\nPrevious conversation:\nUser: Hi\nAssistant: Hello"
    /\ pc = "done"

(* ======================================================================== *)
(* search_tools.py: the outline tool once the course is resolved            *)
(* ======================================================================== *)

(* ------------------------------ C36 ------------------------------------- *)

\* an outline request for a name the store resolved to a course
Resolved ==
    /\ call.op = "execute"
    /\ call.tool \in OutlineTools
    /\ call.results.resolved # None

\* the head of an outline: the title line and the instructor and link lines
\* that are present
OutlineHead(md) ==
    "Course: " \o (IF md.title = None THEN "Unknown Course" ELSE md.title[1])
    \o (IF Shown(md.instructor) # "" THEN "\nInstructor: " \o md.instructor[1] ELSE "")
    \o (IF Shown(md.course_link) # "" THEN "\nCourse Link: " \o md.course_link[1] ELSE "")

\* C36: once the name is resolved execute does not raise; it returns
\* "Course metadata not found for '<title>'" when the catalog holds no
\* metadata, 'Error retrieving course outline: <message>' when the catalog
\* lookup or the rendering raised with that message, and an outline ending in
\* 'No lessons found' when lessons_json is not valid JSON
C36_ResolvedOutlineNeverRaises ==
    Resolved =>
        LET r == call.results IN
        /\ call.raised = ""
        /\ r.catalog = "none" =>
              call.text = "Course metadata not found for '" \o r.resolved[1] \o "'"
        /\ r.catalog = "raises" =>
              call.text = "Error retrieving course outline: catalog unavailable"
        /\ r.catalog = "unrenderable" =>
              call.text = "Error retrieving course outline: "
                          \o "'int' object has no attribute 'get'"
        /\ (r.catalog = "found" /\ ~ r.metadata.json_ok) =>
              call.text = OutlineHead(r.metadata) \o "\n\nNo lessons found"

\* after an outline had been rendered, the rendering of another course's
\* lessons raised and execute returned the error text
C36_Witness ==
    /\ Resolved
    /\ call.results.catalog = "unrenderable"
    /\ call.text = "Error retrieving course outline: 'int' object has no attribute 'get'"
    /\ call.raised = ""
    /\ last_sources["outline_tool"] # <<>>

(* ======================================================================== *)
(* ai_generator.py: _handle_tool_execution beside generate_response with    *)
(* one round, SpecLegacy                                                    *)
(* ======================================================================== *)

\* LegacyToolResults with a fault: only the first tool_use block is executed
\* (sensitivity of C37)
LegacyToolResults_FirstOnly(content, tool_result) ==
    IF ToolUses(content) = <<>> THEN <<>>
    ELSE << ToolResultEntry(ToolUses(content)[1], tool_result) >>

\* ai_generator.py:217-229: every tool_use block is executed, in order, and
\* its result becomes an entry
RECURSIVE LegacyToolResults(_, _)
LegacyToolResults(content, tool_result) ==
    IF content = <<>> THEN <<>>
    ELSE IF Head(content).type = "tool_use"
         THEN << ToolResultEntry(Head(content), tool_result) >>
              \o LegacyToolResults(Tail(content), tool_result)
         ELSE LegacyToolResults(Tail(content), tool_result)

\* ai_generator.py:211-233: the base messages, the assistant turn, and the
\* tool-result turn when there is a result
LegacyMessages(base_messages, initial_response, results) ==
    IF results # <<>>
    THEN Append(Append(base_messages, AssistantTurn(initial_response)),
                ToolResultTurn(results))
    ELSE Append(base_messages, AssistantTurn(initial_response))

\* final_params, ai_generator.py:236-240
LegacyFinalParams(msgs, system) ==
    [site |-> "final", messages |-> msgs, system |-> system,
     tools |-> FALSE, tool_choice |-> "absent"]

\* what the service does with the first attempt of request k: it fails with an
\* error or answers with a response
ServiceAnswers(k) ==
    { [raised |-> TRUE, msg |-> m, response |-> NoResponse] : m \in ErrMsgs }
    \cup { [raised |-> FALSE, msg |-> <<>>, response |-> r] : r \in Responses(k) }

\* ai_generator.py:243-244: client.messages.create is called once, an error
\* is not caught, and content[0].text of the response is returned
LegacyEnd(answer) ==
    IF answer.raised
    THEN [outcome |-> "raised", ret |-> <<>>, exc |-> answer.msg]
    ELSE IF answer.response.content = <<>>
         THEN [outcome |-> "raised", ret |-> <<>>, exc |-> <<"IndexError">>]
         ELSE IF answer.response.content[1].type # "text"
              THEN [outcome |-> "raised", ret |-> <<>>, exc |-> <<"AttributeError">>]
              ELSE [outcome |-> "returned", ret |-> answer.response.content[1].text,
                    exc |-> <<>>]

\* generate_response(query, conversation_history, tools, tool_manager,
\* max_rounds=1) has been entered; _handle_tool_execution has not been called
InitLegacy ==
    /\ max_rounds = 1
    /\ tools \in BOOLEAN
    /\ tool_manager \in BOOLEAN
    /\ conversation_history \in Histories
    /\ legacy = NoLegacy
    /\ messages = << [role |-> "user", content |-> query] >>
    /\ round_num = 0
    /\ response = NoResponse
    /\ tool_results = <<>>
    /\ block_idx = 0
    /\ pc = "loop"
    /\ caller = "none"
    /\ attempt = 0
    /\ slept = <<>>
    /\ e = <<>>
    /\ requests = <<>>
    /\ responses = <<>>
    /\ executed = <<>>
    /\ batches = 0
    /\ outcome = "running"
    /\ ret = <<>>
    /\ exc = <<>>
    /\ tm_tools = [m \in Managers |-> <<>>]
    /\ session_sources = [m \in Managers |-> <<>>]
    /\ last_sources = [t \in SourceTools |-> <<>>]
    /\ call = NoCall
    /\ calls = 0
    /\ registrations = <<>>
    /\ shared = TRUE
    /\ serial = TRUE
    /\ qpc = [q \in Queries |-> "done"]
    /\ qcalls = [q \in Queries |-> 0]
    /\ qproduced = [q \in Queries |-> <<>>]
    /\ qread = [q \in Queries |-> <<>>]
    /\ cited = FALSE

\* ai_generator.py:198-244: _handle_tool_execution(initial_response,
\* base_params, tool_manager) with the first response of the call, a response
\* that asks for tools, and the parameters of that response's request
HandleToolExecution ==
    /\ legacy.pc = "idle"
    /\ Len(responses) >= 1
    /\ WantsTools(responses[1], tool_manager)
    /\ \E tool_result \in ToolReturns, answer \in ServiceAnswers(2) :
          LET initial_response == responses[1]
              base_params == requests[1]
              results == LegacyToolResults(initial_response.content, tool_result)
              msgs == LegacyMessages(base_params.messages, initial_response, results)
              end == LegacyEnd(answer)
          IN  legacy' =
                [pc |-> "done",
                 messages |-> msgs,
                 executed |-> [i \in DOMAIN results |-> results[i].tool_use_id],
                 requests |-> << LegacyFinalParams(msgs, base_params.system) >>,
                 answer |-> answer,
                 outcome |-> end.outcome, ret |-> end.ret, exc |-> end.exc]
    /\ UNCHANGED << registry_vars, args, messages, round_num, response, tool_results,
                    block_idx, pc, caller, attempt, slept, e, requests, responses,
                    executed, batches, outcome, ret, exc >>

\* the first attempt of the synthesis request of generate_response
FinalFirstAttempt == pc = "api" /\ caller = "final" /\ attempt = 0

\* SynthesisResponse; the service answers the first attempt of the synthesis
\* request as it answered the one call of _handle_tool_execution
SameAnswerResponds ==
    /\ SynthesisResponse
    /\ FinalFirstAttempt =>
          /\ legacy.pc = "done"
          /\ legacy.answer = [raised |-> FALSE, msg |-> <<>>,
                              response |-> responses'[Len(responses')]]

\* ApiAttemptRaises; the service fails the first attempt of the synthesis
\* request as it failed the one call of _handle_tool_execution
SameAnswerRaises ==
    /\ ApiAttemptRaises
    /\ FinalFirstAttempt =>
          /\ legacy.pc = "done"
          /\ legacy.answer = [raised |-> TRUE, msg |-> e', response |-> NoResponse]

\* the tools do not raise
NextLegacy ==
    \/ StartRound
    \/ LoopExhausted
    \/ RoundResponse
    \/ SameAnswerResponds
    \/ SameAnswerRaises
    \/ SkipBlock
    \/ ToolCallReturns
    \/ EndBatch
    \/ StartSynthesis
    \/ ReturnLast
    \/ HandleToolExecution

SpecLegacy == InitLegacy /\ [][NextLegacy]_vars

(* ------------------------------ C37 ------------------------------------- *)

\* both paths were taken from a first response that asked for tools, and both
\* are over
BothPathsOver == pc = "done" /\ legacy.pc = "done"

\* both paths executed the same tools in the same order and sent the same
\* final request: no tools, and the three messages user query, assistant turn,
\* tool-result turn
SameToolsAndFinalRequest ==
    /\ [i \in DOMAIN executed |-> executed[i].id] = legacy.executed
    /\ \A i \in DOMAIN executed : ~ executed[i].raised
    /\ legacy.executed = [i \in 1..Len(ToolUses(responses[1].content)) |->
                             ToolUses(responses[1].content)[i].id]
    /\ Len(requests) = 2
    /\ Len(legacy.requests) = 1
    /\ requests[2] = legacy.requests[1]
    /\ ~ requests[2].tools
    /\ requests[2].tool_choice = "absent"
    /\ Len(requests[2].messages) = 3
    /\ requests[2].messages[1] = [role |-> "user", content |-> query]
    /\ requests[2].messages[2] = AssistantTurn(responses[1])
    /\ requests[2].messages[3].role = "user"
    /\ IsToolResultContent(requests[2].messages[3].content)

\* both paths ended alike: the same text returned, or the same error raised
SameEnd == outcome = legacy.outcome /\ ret = legacy.ret /\ exc = legacy.exc

\* the claim as stated: the two paths are equivalent
C37_Original == BothPathsOver => (SameToolsAndFinalRequest /\ SameEnd)

\* C37: from a first response that asks for tools, with tools that do not
\* raise, generate_response with max_rounds = 1 and _handle_tool_execution
\* execute the same tools in the same order and send the same tool-less final
\* request of three messages; they end alike when the service answers the
\* first attempt of that request or fails it with an error that is not
\* transient. When it fails it with a transient error, _handle_tool_execution
\* raises that error, while generate_response retries the request and ends as
\* a later attempt has it: if with an error of the service, then after a retry
C37_OneRoundMatchesLegacyUpToRetry ==
    BothPathsOver =>
        /\ SameToolsAndFinalRequest
        /\ ~ legacy.answer.raised => SameEnd
        /\ legacy.answer.raised =>
              /\ legacy.outcome = "raised"
              /\ legacy.exc = legacy.answer.msg
              /\ IF HasApiTransientSignature(legacy.answer.msg)
                 THEN (outcome = "raised" /\ exc \in ErrMsgs) => attempt > 0
                 ELSE SameEnd

\* both paths executed the two tool invocations of the first response and
\* returned the same text
C37_Witness ==
    /\ BothPathsOver
    /\ Len(executed) = 2
    /\ legacy.executed = << <<1, 1>>, <<1, 2>> >>
    /\ outcome = "returned"
    /\ legacy.outcome = "returned"
    /\ ret = legacy.ret

====
